---- MODULE Spec2Model ----
(***************************************************************************)
(* A model of the stacksenv client: the AES-256-GCM envelope               *)
(* (pkg/stacksenv Encrypt / Decrypt) and the remote fetch with its         *)
(* key/AAD negotiation (DefaultClientService.GetContextDecryptedData).     *)
(*                                                                         *)
(* Go strings are sequences of one-character strings, so "a|b" is          *)
(* <<"a", "|", "b">> and "" is <<>>.  Bytes of a payload are records       *)
(* [seal, pos, val]: a plain byte has seal = <<>> and its value in val; a  *)
(* byte produced by gcm.Seal carries the (key, nonce, aad, plaintext) it   *)
(* was sealed under, its position, and in val the difference from the      *)
(* genuine byte (0 when untouched).  gcm.Open accepts exactly the          *)
(* untouched output of gcm.Seal under the same key, nonce and AAD.         *)
(***************************************************************************)
EXTENDS Integers, Sequences, FiniteSets, TLC

VARIABLES
    cin,      \* crypto round: the arguments drawn for Encrypt
    cenv,     \* crypto round: the envelope string under test
    cdec,     \* crypto round: the last Decrypt call and what it returned
    config,   \* fetch: the *Config handed to GetContextDecryptedData
    pc,       \* fetch: position inside GetContextDecryptedData
    wire,     \* fetch: what the server sealed and the HTTP response in flight
    requests, \* fetch: HTTP requests sent so far
    calls,    \* fetch: the s.crypto.Decrypt calls made so far, in order
    ret,      \* fetch: the (result, err) pair returned
    urlStr,   \* URL round: the identifier string handed to ParseURL
    parsed,   \* URL round: which ParseURL was called and what it returned
    call,     \* handler: the function called and its arguments
    hpc,      \* handler: position inside the function called
    stdout,   \* handler: the lines printed so far
    executed, \* handler: the commands handed to the executor so far
    environ,  \* the process environment, as os.Environ() lists it
    hret,     \* handler: what the function returned
    procs,    \* concurrent fetches: the state of each goroutine
    envelopes,\* Encrypt calls made in a row and what each returned
    fs,       \* configuration files: the directories and files on disk
    cfgret,   \* configuration files: the last bootstrap call and its result
    versions, \* update: the running version and the latest release tag
    update    \* update: what the update command did

vars == <<cin, cenv, cdec, config, pc, wire, requests, calls, ret, urlStr, parsed,
          call, hpc, stdout, executed, environ, hret, procs, envelopes, fs, cfgret,
          versions, update>>
cryptoVars == <<cin, cenv, cdec>>
fetchVars == <<config, pc, wire, requests, calls, ret>>
urlVars == <<urlStr, parsed>>
handlerVars == <<call, hpc, stdout, executed, environ, hret>>
fileVars == <<fs, cfgret>>
updateVars == <<versions, update>>
appVars == <<handlerVars, procs, envelopes, fileVars, updateVars>>

(***************************************************************************)
(* Bounds of the model and constants of the program.                       *)
(***************************************************************************)
MaxRecords == 2
MaxOptions == 2

NonceSize == 12
TagSize == 16
StatusOK == 200

(***************************************************************************)
(* Go values.                                                              *)
(***************************************************************************)
\* The byte 0xFF, which is not valid UTF-8, and U+FFFD, which replaces it.
InvalidByte == "\\xff"
ReplacementChar == "\\ufffd"

GoString(s) == [kind |-> "string", s |-> s, n |-> 0]
GoInt(n) == [kind |-> "int", s |-> <<>>, n |-> n]
GoFloat64(n) == [kind |-> "float64", s |-> <<>>, n |-> n]
GoBool(b) == [kind |-> "bool", s |-> <<>>, n |-> IF b THEN 1 ELSE 0]
GoNil == [kind |-> "nil", s |-> <<>>, n |-> 0]
GoChan == [kind |-> "chan", s |-> <<>>, n |-> 0]

ContextData(property, value) == [Property |-> property, Value |-> value]

\* A []ContextData[any]: the nil slice, or a slice holding items.
NilSlice == [isNil |-> TRUE, items |-> <<>>]
Slice(items) == [isNil |-> FALSE, items |-> items]

\* Errors: the format string and its operands; nil is the empty format.
NilError == [format |-> "", operands |-> <<>>]
Errorf(format, operands) == [format |-> format, operands |-> operands]

\* Config{}: every string empty, DisableHTTPS false.
ZeroConfig ==
    [ID |-> <<>>, Secret |-> <<>>, SecretKey |-> <<>>, ServerURL |-> <<>>,
     Branch |-> <<>>, DisableHTTPS |-> FALSE]

\* No ParseURL call was made.
NoParse == [parser |-> "none", config |-> ZeroConfig, err |-> NilError, panicked |-> FALSE]

URLIdle ==
    /\ urlStr = <<>>
    /\ parsed = NoParse

\* No handler is running, no goroutine, no Encrypt sequence, no bootstrap of
\* configuration files and no update.
NoCall == [fn |-> "none", url |-> <<>>, args |-> <<>>, nilCnf |-> FALSE, hasConfig |-> FALSE,
           Config |-> ZeroConfig, SetOSEnv |-> FALSE]
NoReturn == [returned |-> FALSE, panicked |-> FALSE, properties |-> NilSlice, err |-> NilError]

HandlerIdle ==
    /\ call = NoCall
    /\ hpc = "off"
    /\ stdout = <<>>
    /\ executed = <<>>
    /\ environ = <<>>
    /\ hret = NoReturn

GoroutinesIdle == procs = <<>>
EncryptsIdle == envelopes = <<>>

FilesIdle ==
    /\ fs = <<>>
    /\ cfgret = <<>>

UpdateIdle ==
    /\ versions = <<>>
    /\ update = <<>>

RECURSIVE SeqsUpTo(_, _)
SeqsUpTo(S, n) ==
    IF n = 0 THEN {<<>>}
    ELSE LET shorter == SeqsUpTo(S, n - 1)
         IN  shorter \cup {Append(q, x) : q \in {r \in shorter : Len(r) = n - 1}, x \in S}

(***************************************************************************)
(* encoding/json, as Encrypt and Decrypt use it.  A JSON text is a         *)
(* sequence of tokens [t, s, n].                                           *)
(***************************************************************************)
Punct(t) == [t |-> t, s |-> <<>>, n |-> 0]
StringToken(s) == [t |-> "string", s |-> s, n |-> 0]
NumberToken(n) == [t |-> "number", s |-> <<>>, n |-> n]

\* json.Marshal replaces every invalid UTF-8 byte of a string by U+FFFD.
CoerceUTF8(s) == [i \in 1..Len(s) |-> IF s[i] = InvalidByte THEN ReplacementChar ELSE s[i]]

\* json.Marshal has no encoding for channels (UnsupportedTypeError).
Marshalable(v) == v.kind # "chan"

MarshalValue(v) ==
    CASE v.kind = "string" -> StringToken(CoerceUTF8(v.s))
      [] v.kind = "int" -> NumberToken(v.n)
      [] v.kind = "float64" -> NumberToken(v.n)
      [] v.kind = "bool" -> Punct(IF v.n = 1 THEN "true" ELSE "false")
      [] OTHER -> Punct("null")

MarshalRecord(r) ==
    << Punct("{"), StringToken(<<"property">>), Punct(":"), StringToken(CoerceUTF8(r.Property)),
       Punct(","), StringToken(<<"value">>), Punct(":"), MarshalValue(r.Value), Punct("}") >>

RECURSIVE MarshalItems(_)
MarshalItems(items) ==
    IF items = <<>> THEN <<>>
    ELSE IF Len(items) = 1 THEN MarshalRecord(items[1])
    ELSE MarshalRecord(items[1]) \o <<Punct(",")>> \o MarshalItems(Tail(items))

\* json.Marshal(data): (text, err).
Marshal(data) ==
    IF \E i \in 1..Len(data.items) : ~Marshalable(data.items[i].Value)
    THEN [text |-> <<>>, err |-> Errorf("json: unsupported type", <<>>)]
    ELSE IF data.isNil THEN [text |-> <<Punct("null")>>, err |-> NilError]
    ELSE [text |-> <<Punct("[")>> \o MarshalItems(data.items) \o <<Punct("]")>>, err |-> NilError]

\* The Go value json.Unmarshal stores in an `any` for one value token.
UnmarshalValue(tok) ==
    CASE tok.t = "string" -> GoString(tok.s)
      [] tok.t = "number" -> GoFloat64(tok.n)
      [] tok.t = "true" -> GoBool(TRUE)
      [] tok.t = "false" -> GoBool(FALSE)
      [] OTHER -> GoNil

IsValueToken(tok) == tok.t \in {"string", "number", "true", "false", "null"}

\* Whether the nine tokens from position i have the shape of one
\* {"property": <value>, "value": <value>} object.
IsRecordAt(text, i) ==
    /\ i + 8 <= Len(text)
    /\ text[i] = Punct("{")
    /\ text[i + 1] = StringToken(<<"property">>)
    /\ text[i + 2] = Punct(":")
    /\ IsValueToken(text[i + 3])
    /\ text[i + 4] = Punct(",")
    /\ text[i + 5] = StringToken(<<"value">>)
    /\ text[i + 6] = Punct(":")
    /\ IsValueToken(text[i + 7])
    /\ text[i + 8] = Punct("}")

\* The syntax check json.Unmarshal runs over the whole text before it stores
\* anything: an array of objects from token i on.
RECURSIVE ValidItems(_, _)
ValidItems(text, i) ==
    /\ IsRecordAt(text, i)
    /\ \/ i + 9 = Len(text) /\ text[i + 9] = Punct("]")
       \/ i + 9 < Len(text) /\ text[i + 9] = Punct(",") /\ ValidItems(text, i + 10)

ValidText(text) ==
    \/ text = <<Punct("null")>>
    \/ text = <<Punct("["), Punct("]")>>
    \/ Len(text) >= 2 /\ text[1] = Punct("[") /\ ValidItems(text, 2)

\* A property that is not a JSON string cannot be stored in the string field:
\* the field keeps "" and decoding goes on (UnmarshalTypeError at the end).
TypeErrorAt(text, i) == text[i + 3].t \notin {"string", "null"}

RecordAt(text, i) ==
    ContextData(IF text[i + 3].t = "string" THEN text[i + 3].s ELSE <<>>,
                UnmarshalValue(text[i + 7]))

\* The records of a valid array body from token i on, and whether one of them
\* met a type error.
RECURSIVE UnmarshalItems(_, _)
UnmarshalItems(text, i) ==
    IF i + 9 >= Len(text)
    THEN [items |-> <<RecordAt(text, i)>>, typeError |-> TypeErrorAt(text, i)]
    ELSE LET rest == UnmarshalItems(text, i + 10)
         IN  [items |-> <<RecordAt(text, i)>> \o rest.items,
              typeError |-> TypeErrorAt(text, i) \/ rest.typeError]

\* json.Unmarshal(plaintext, &result) with result a nil []ContextData[any]:
\* what result holds afterwards, and the error.
Unmarshal(text) ==
    IF ~ValidText(text)
    THEN [result |-> NilSlice, err |-> Errorf("json: syntax error", <<>>)]
    ELSE IF text = <<Punct("null")>> THEN [result |-> NilSlice, err |-> NilError]
    ELSE IF text = <<Punct("["), Punct("]")>> THEN [result |-> Slice(<<>>), err |-> NilError]
    ELSE LET decoded == UnmarshalItems(text, 2)
         IN  [result |-> Slice(decoded.items),
              err |-> IF decoded.typeError
                      THEN Errorf("json: cannot unmarshal number into Go struct field", <<>>)
                      ELSE NilError]

(***************************************************************************)
(* crypto/sha256, crypto/cipher (GCM) and encoding/base64, as used.        *)
(***************************************************************************)
PlainByte(n) == [seal |-> <<>>, pos |-> 0, val |-> n]

\* sha256.Sum256([]byte(sharedSecret)): the digest names what it digests.
Sum256(secret) == <<"sha256", secret>>

\* gcm.Seal(nil, nonce, plaintext, aad): len(plaintext) + 16 bytes.
Seal(key, nonce, plaintext, aad) ==
    [i \in 1..(Len(plaintext) + TagSize) |->
        [seal |-> <<key, nonce, aad, plaintext>>, pos |-> i, val |-> 0]]

\* gcm.Open(nil, nonce, ciphertext, aad): (plaintext, err).
Open(key, nonce, ciphertext, aad) ==
    IF /\ Len(ciphertext) >= TagSize
       /\ Len(ciphertext[1].seal) = 4
       /\ ciphertext = Seal(key, nonce, ciphertext[1].seal[4], aad)
    THEN [plaintext |-> ciphertext[1].seal[4], err |-> NilError]
    ELSE [plaintext |-> <<>>, err |-> Errorf("cipher: message authentication failed", <<>>)]

\* base64.StdEncoding.EncodeToString(payload): a string in the standard alphabet.
EncodeToString(payload) == [alphabet |-> "std", bytes |-> payload]

\* The Go strings "" and one that is no base64 of anything.
EmptyString == EncodeToString(<<>>)
NotBase64 == [alphabet |-> "none", bytes |-> <<>>]

\* base64.StdEncoding.DecodeString(encrypted): (raw, err).
DecodeString(str) ==
    IF str.alphabet = "std" THEN [raw |-> str.bytes, err |-> NilError]
    ELSE [raw |-> <<>>, err |-> Errorf("illegal base64 data", <<>>)]

(***************************************************************************)
(* DefaultCryptoService.Encrypt and Decrypt.                               *)
(***************************************************************************)
\* Mutant of Encrypt: the nonce is put after the ciphertext instead of before it.
EncryptAppendsNonce(data, sharedSecret, aad, nonce) ==
    IF sharedSecret = <<>>
    THEN [out |-> EmptyString, err |-> Errorf("shared secret cannot be empty", <<>>)]
    ELSE IF Marshal(data).err # NilError
    THEN [out |-> EmptyString, err |-> Errorf("marshal failed: %w", <<Marshal(data).err>>)]
    ELSE [out |-> EncodeToString(Seal(Sum256(sharedSecret), nonce, Marshal(data).text, aad)
                                    \o nonce),
          err |-> NilError]

\* Mutant of Encrypt: the bytes read from rand.Reader are not used, the nonce
\* stays as make() left it.
EncryptZeroNonce(data, sharedSecret, aad, nonce) ==
    IF sharedSecret = <<>>
    THEN [out |-> EmptyString, err |-> Errorf("shared secret cannot be empty", <<>>)]
    ELSE IF Marshal(data).err # NilError
    THEN [out |-> EmptyString, err |-> Errorf("marshal failed: %w", <<Marshal(data).err>>)]
    ELSE [out |-> EncodeToString([i \in 1..NonceSize |-> PlainByte(0)]
                                    \o Seal(Sum256(sharedSecret), [i \in 1..NonceSize |-> PlainByte(0)],
                                            Marshal(data).text, aad)),
          err |-> NilError]

\* Encrypt(data, sharedSecret, aad), with nonce the bytes rand.Reader yields.
Encrypt(data, sharedSecret, aad, nonce) ==
    IF sharedSecret = <<>>
    THEN [out |-> EmptyString, err |-> Errorf("shared secret cannot be empty", <<>>)]
    ELSE IF Marshal(data).err # NilError
    THEN [out |-> EmptyString, err |-> Errorf("marshal failed: %w", <<Marshal(data).err>>)]
    ELSE LET plaintext == Marshal(data).text
             key == Sum256(sharedSecret)
             ciphertext == Seal(key, nonce, plaintext, aad)
             payload == nonce \o ciphertext
         IN  [out |-> EncodeToString(payload), err |-> NilError]

\* An open that recovers the plaintext without verifying anything but the key.
OpenUnverified(key, nonce, ciphertext, aad) ==
    IF /\ Len(ciphertext) >= TagSize
       /\ Len(ciphertext[1].seal) = 4
       /\ ciphertext[1].seal[1] = key
    THEN [plaintext |-> ciphertext[1].seal[4], err |-> NilError]
    ELSE [plaintext |-> <<>>, err |-> Errorf("cipher: message authentication failed", <<>>)]

\* Mutant of DecryptPayload: the tag is not verified.
DecryptPayloadUnverified(raw, sharedSecret, aad) ==
    IF Len(raw) < NonceSize
    THEN [result |-> NilSlice, err |-> Errorf("invalid payload size: too short", <<>>)]
    ELSE LET opened == OpenUnverified(Sum256(sharedSecret), SubSeq(raw, 1, NonceSize),
                                      SubSeq(raw, NonceSize + 1, Len(raw)), aad)
         IN  IF opened.err # NilError
             THEN [result |-> NilSlice, err |-> Errorf("decrypt/auth failed: %w", <<opened.err>>)]
             ELSE IF Unmarshal(opened.plaintext).err # NilError
             THEN [result |-> NilSlice,
                   err |-> Errorf("json unmarshal failed: %w", <<Unmarshal(opened.plaintext).err>>)]
             ELSE [result |-> Unmarshal(opened.plaintext).result, err |-> NilError]

\* Mutant of DecryptPayload: on a JSON error it returns result, which
\* json.Unmarshal has partly filled, instead of nil.
DecryptPayloadKeepsResult(raw, sharedSecret, aad) ==
    IF Len(raw) < NonceSize
    THEN [result |-> NilSlice, err |-> Errorf("invalid payload size: too short", <<>>)]
    ELSE LET opened == Open(Sum256(sharedSecret), SubSeq(raw, 1, NonceSize),
                            SubSeq(raw, NonceSize + 1, Len(raw)), aad)
         IN  IF opened.err # NilError
             THEN [result |-> NilSlice, err |-> Errorf("decrypt/auth failed: %w", <<opened.err>>)]
             ELSE [result |-> Unmarshal(opened.plaintext).result,
                   err |-> IF Unmarshal(opened.plaintext).err # NilError
                           THEN Errorf("json unmarshal failed: %w",
                                       <<Unmarshal(opened.plaintext).err>>)
                           ELSE NilError]

\* Decrypt from the key derivation on: raw is the decoded payload.
DecryptPayload(raw, sharedSecret, aad) ==
    LET key == Sum256(sharedSecret)
    IN  IF Len(raw) < NonceSize
        THEN [result |-> NilSlice, err |-> Errorf("invalid payload size: too short", <<>>)]
        ELSE LET nonce == SubSeq(raw, 1, NonceSize)
                 ciphertext == SubSeq(raw, NonceSize + 1, Len(raw))
                 opened == Open(key, nonce, ciphertext, aad)
             IN  IF opened.err # NilError
                 THEN [result |-> NilSlice,
                       err |-> Errorf("decrypt/auth failed: %w", <<opened.err>>)]
                 ELSE IF Unmarshal(opened.plaintext).err # NilError
                 THEN [result |-> NilSlice,
                       err |-> Errorf("json unmarshal failed: %w",
                                      <<Unmarshal(opened.plaintext).err>>)]
                 ELSE [result |-> Unmarshal(opened.plaintext).result, err |-> NilError]

\* Mutant of Decrypt: gcm.Open is given the AAD the payload was sealed with,
\* whatever the caller passed.
DecryptWithoutAAD(encrypted, sharedSecret, aad) ==
    IF encrypted = EmptyString
    THEN [result |-> NilSlice, err |-> Errorf("encrypted payload cannot be empty", <<>>)]
    ELSE IF sharedSecret = <<>>
    THEN [result |-> NilSlice, err |-> Errorf("shared secret cannot be empty", <<>>)]
    ELSE IF DecodeString(encrypted).err # NilError
    THEN [result |-> NilSlice,
          err |-> Errorf("base64 decode failed: %w", <<DecodeString(encrypted).err>>)]
    ELSE LET raw == DecodeString(encrypted).raw
         IN  DecryptPayload(raw, sharedSecret,
                            IF Len(raw) > NonceSize /\ Len(raw[NonceSize + 1].seal) = 4
                            THEN raw[NonceSize + 1].seal[3] ELSE aad)

\* Decrypt(encrypted, sharedSecret, aad): (result, err).
Decrypt(encrypted, sharedSecret, aad) ==
    IF encrypted = EmptyString
    THEN [result |-> NilSlice, err |-> Errorf("encrypted payload cannot be empty", <<>>)]
    ELSE IF sharedSecret = <<>>
    THEN [result |-> NilSlice, err |-> Errorf("shared secret cannot be empty", <<>>)]
    ELSE IF DecodeString(encrypted).err # NilError
    THEN [result |-> NilSlice,
          err |-> Errorf("base64 decode failed: %w", <<DecodeString(encrypted).err>>)]
    ELSE DecryptPayload(DecodeString(encrypted).raw, sharedSecret, aad)

(***************************************************************************)
(* The inputs the model draws.                                             *)
(***************************************************************************)
\* Shared secrets ("" included) and AAD strings.
Secrets == {<<>>, <<"a">>, <<"b">>}
AADs == {<<>>, <<"a">>, <<"b">>}

\* What rand.Reader may put in the nonce: NonceSize bytes of one value.
NonceOf(n) == [i \in 1..NonceSize |-> PlainByte(n)]
Nonces == {NonceOf(7), NonceOf(9)}

\* Records a caller of Encrypt can build: any Go value is allowed in Value.
GoRecords ==
    { ContextData(<<"A">>, GoString(<<"x">>)),
      ContextData(<<"B">>, GoInt(1)),
      ContextData(<<"A">>, GoFloat64(2)),
      ContextData(<<"B">>, GoBool(TRUE)),
      ContextData(<<"A">>, GoNil),
      ContextData(<<"B">>, GoChan),
      ContextData(<<InvalidByte>>, GoString(<<"y">>)) }

SlicesOf(records) == {NilSlice} \cup {Slice(items) : items \in SeqsUpTo(records, MaxRecords)}

\* A payload sealed by a peer that holds the secret, whatever the plaintext.
SealText(text, sharedSecret, aad, nonce) ==
    EncodeToString(nonce \o Seal(Sum256(sharedSecret), nonce, text, aad))

\* Plaintexts that are no record list: not JSON at all, and a JSON array
\* whose second object has a number where the property name belongs.
NotJSONText == <<Punct("<"), Punct("html"), Punct(">")>>
TypeErrorText ==
    <<Punct("[")>> \o MarshalRecord(ContextData(<<"A">>, GoString(<<"x">>))) \o <<Punct(",")>>
        \o << Punct("{"), StringToken(<<"property">>), Punct(":"), NumberToken(5),
              Punct(","), StringToken(<<"value">>), Punct(":"), StringToken(<<"s">>), Punct("}") >>
        \o <<Punct("]")>>

ForgedKinds == {"empty", "not base64", "short", "nonce only", "not json", "type error"}

Forged(kind, in) ==
    CASE kind = "empty" -> EmptyString
      [] kind = "not base64" -> NotBase64
      [] kind = "short" -> EncodeToString(SubSeq(in.nonce, 1, NonceSize - 1))
      [] kind = "nonce only" -> EncodeToString(in.nonce)
      [] kind = "not json" -> SealText(NotJSONText, in.secret, in.aad, in.nonce)
      [] OTHER -> SealText(TypeErrorText, in.secret, in.aad, in.nonce)

(***************************************************************************)
(* The crypto round: Encrypt on drawn arguments (or a payload made by      *)
(* someone else), then Decrypt with a secret and an AAD.                   *)
(***************************************************************************)
NoEnvelope == [made |-> "no", str |-> EmptyString, err |-> NilError]
NoDecrypt == [called |-> FALSE, secret |-> <<>>, aad |-> <<>>, result |-> NilSlice, err |-> NilError]

\* The fetch is not running during a crypto round.
FetchIdle ==
    /\ config = [ID |-> <<>>, Secret |-> <<>>, SecretKey |-> <<>>, ServerURL |-> <<>>,
                 Branch |-> <<>>, DisableHTTPS |-> FALSE]
    /\ pc = "off"
    /\ wire = [status |-> 0, body |-> [json |-> FALSE]]
    /\ requests = <<>>
    /\ calls = <<>>
    /\ ret = [result |-> NilSlice, err |-> NilError]

CryptoInit ==
    /\ cin \in [data : SlicesOf(GoRecords), secret : Secrets, aad : AADs, nonce : Nonces]
    /\ cenv = NoEnvelope
    /\ cdec = NoDecrypt
    /\ FetchIdle
    /\ URLIdle
    /\ HandlerIdle /\ GoroutinesIdle /\ EncryptsIdle /\ FilesIdle /\ UpdateIdle

CallEncrypt ==
    /\ cenv.made = "no"
    /\ LET e == Encrypt(cin.data, cin.secret, cin.aad, cin.nonce)
       IN  cenv' = [made |-> "Encrypt", str |-> e.out, err |-> e.err]
    /\ UNCHANGED <<appVars, cin, cdec, fetchVars, urlVars>>

ReceiveForged ==
    /\ cenv.made = "no"
    /\ \E kind \in ForgedKinds :
          cenv' = [made |-> kind, str |-> Forged(kind, cin), err |-> NilError]
    /\ UNCHANGED <<appVars, cin, cdec, fetchVars, urlVars>>

CallDecrypt ==
    /\ cenv.made # "no"
    /\ ~cdec.called
    /\ \E secret \in Secrets, aad \in AADs :
          LET d == Decrypt(cenv.str, secret, aad)
          IN  cdec' = [called |-> TRUE, secret |-> secret, aad |-> aad,
                       result |-> d.result, err |-> d.err]
    /\ UNCHANGED <<appVars, cin, cenv, fetchVars, urlVars>>

CryptoNext == CallEncrypt \/ ReceiveForged \/ CallDecrypt

SpecCrypto == CryptoInit /\ [][CryptoNext]_vars

(***************************************************************************)
(* The server side of a fetch: the payloads it may put in the data field   *)
(* (sealed by it, possibly damaged on the way) and the bodies it may send. *)
(***************************************************************************)
\* Records as they travel: values JSON has a form for.
WireRecords ==
    { ContextData(<<"A">>, GoString(<<"x">>)),
      ContextData(<<"B">>, GoFloat64(2)) }

WireSecrets == {<<"a">>, <<"b">>}
WireAADs == {<<>>, <<"a">>, <<"b">>, <<"a", "|", "b">>}
WireKinds == {"records", "not json", "type error"}
FlipMasks == {1}

\* What the server sealed, with the secret and the AAD: records through
\* Encrypt, or a plaintext that is no record list.
Sealed ==
    { [kind |-> kind, data |-> data, secret |-> secret, aad |-> aad, tampered |-> FALSE,
       str |-> Encrypt(data, secret, aad, NonceOf(7)).out] :
         kind \in {"records"}, data \in SlicesOf(WireRecords),
         secret \in WireSecrets, aad \in WireAADs }
    \cup
    { [kind |-> kind, data |-> NilSlice, secret |-> secret, aad |-> aad, tampered |-> FALSE,
       str |-> SealText(IF kind = "not json" THEN NotJSONText ELSE TypeErrorText,
                        secret, aad, NonceOf(7))] :
         kind \in WireKinds \ {"records"}, secret \in WireSecrets, aad \in WireAADs }

\* A sealed payload with one byte of its ciphertext or tag changed.
Tamper(e, at, mask) == [e EXCEPT !.tampered = TRUE, !.str.bytes[at].val = mask]

Tampered ==
    UNION { { Tamper(e, at, mask) : at \in (NonceSize + 1)..Len(e.str.bytes), mask \in FlipMasks } :
            e \in Sealed }

\* A data field that is no payload of the server's.
NoPayload(str) ==
    [kind |-> "none", data |-> NilSlice, secret |-> <<>>, aad |-> <<>>, tampered |-> FALSE,
     str |-> str]

Statuses == {StatusOK, 201, 204, 404}
ErrorFields ==
    { [type |-> "absent", s |-> <<>>], [type |-> "string", s |-> <<>>],
      [type |-> "string", s |-> <<"b", "o", "o", "m">>] }

\* The data field: absent, not a string, or a string.
DataFields(payloads) ==
    { [type |-> "absent", payload |-> NoPayload(EmptyString)],
      [type |-> "number", payload |-> NoPayload(EmptyString)],
      [type |-> "string", payload |-> NoPayload(EmptyString)],
      [type |-> "string", payload |-> NoPayload(NotBase64)] }
    \cup { [type |-> "string", payload |-> e] : e \in payloads }

NotJSONBody ==
    [json |-> FALSE, error |-> [type |-> "absent", s |-> <<>>],
     data |-> [type |-> "absent", payload |-> NoPayload(EmptyString)]]

Bodies(payloads) == [json : {TRUE}, error : ErrorFields, data : DataFields(payloads)] \cup {NotJSONBody}

NoResponse == [status |-> 0, body |-> NotJSONBody]

(***************************************************************************)
(* package strings and package net/url, as ParseURL and SendCLIRequest use *)
(* them.  Separators are single characters.                                *)
(***************************************************************************)
\* strings.Index and strings.LastIndex, counted from 1; 0 when c is not in s.
Index(s, c) ==
    IF \E i \in 1..Len(s) : s[i] = c
    THEN CHOOSE i \in 1..Len(s) : s[i] = c /\ \A j \in 1..(i - 1) : s[j] # c
    ELSE 0

LastIndex(s, c) ==
    IF \E i \in 1..Len(s) : s[i] = c
    THEN CHOOSE i \in 1..Len(s) : s[i] = c /\ \A j \in (i + 1)..Len(s) : s[j] # c
    ELSE 0

\* strings.Cut: s around the first c.
Cut(s, c) ==
    LET i == Index(s, c)
    IN  IF i = 0
        THEN [before |-> s, after |-> <<>>, found |-> FALSE]
        ELSE [before |-> SubSeq(s, 1, i - 1), after |-> SubSeq(s, i + 1, Len(s)), found |-> TRUE]

\* strings.Split: the pieces of s between the occurrences of sep; one piece,
\* s itself, when sep does not occur (also for the empty s).
RECURSIVE Split(_, _)
Split(s, sep) ==
    LET c == Cut(s, sep)
    IN  IF c.found THEN <<c.before>> \o Split(c.after, sep) ELSE <<s>>

Digits == {"0", "1", "2", "3", "4", "5", "6", "7", "8", "9"}

\* Characters url.Parse refuses in a host name (among those of the model).
HostRejects == {" ", "^", "|", "{", "}"}

\* url.QueryEscape of one character that is not unreserved.
PercentCode(c) ==
    CASE c = " " -> <<"+">>
      [] c = "#" -> <<"%", "2", "3">>
      [] c = "&" -> <<"%", "2", "6">>
      [] c = "/" -> <<"%", "2", "F">>
      [] c = ":" -> <<"%", "3", "A">>
      [] c = "=" -> <<"%", "3", "D">>
      [] c = "?" -> <<"%", "3", "F">>
      [] c = "@" -> <<"%", "4", "0">>
      [] c = "|" -> <<"%", "7", "C">>
      [] OTHER -> <<c>>

RECURSIVE QueryEscape(_)
QueryEscape(s) ==
    IF s = <<>> THEN <<>> ELSE PercentCode(Head(s)) \o QueryEscape(Tail(s))

\* url.Values.Encode for the two parameters SendCLIRequest sets: keys in
\* sorted order, values escaped.
Encode(id, branch) ==
    <<"b", "r", "a", "n", "c", "h", "=">> \o QueryEscape(branch)
        \o <<"&", "i", "d", "=">> \o QueryEscape(id)

\* url.Parse of an absolute URL, step by step: the fragment is cut at the
\* first '#', the scheme ends at the first ':', the query is cut at the first
\* '?', the authority lies between "//" and the next '/', the host follows
\* the last '@' of the authority, and a port must be digits.
URLError(format, rawURL) ==
    [err |-> Errorf(format, <<rawURL>>),
     Scheme |-> <<>>, Host |-> <<>>, Path |-> <<>>, RawQuery |-> <<>>, Fragment |-> <<>>]

BadPort(host, pcolon) ==
    pcolon # 0 /\ \E i \in (pcolon + 1)..Len(host) : host[i] \notin Digits

URLParseHost(rawURL, scheme, host, path, rawQuery, fragment) ==
    IF BadPort(host, LastIndex(host, ":"))
    THEN URLError("parse %q: invalid port %q after host", rawURL)
    ELSE IF \E i \in 1..Len(host) : host[i] \in HostRejects
    THEN URLError("parse %q: invalid character %q in host name", rawURL)
    ELSE [err |-> NilError, Scheme |-> scheme, Host |-> host, Path |-> path,
          RawQuery |-> rawQuery, Fragment |-> fragment]

URLParseAuthority(rawURL, scheme, authority, path, rawQuery, fragment) ==
    URLParseHost(rawURL, scheme,
                 SubSeq(authority, LastIndex(authority, "@") + 1, Len(authority)),
                 path, rawQuery, fragment)

URLParseSlashes(rawURL, scheme, afterSlashes, slash, rawQuery, fragment) ==
    IF slash = 0
    THEN URLParseAuthority(rawURL, scheme, afterSlashes, <<>>, rawQuery, fragment)
    ELSE URLParseAuthority(rawURL, scheme, SubSeq(afterSlashes, 1, slash - 1),
                           SubSeq(afterSlashes, slash, Len(afterSlashes)), rawQuery, fragment)

URLParseRest(rawURL, scheme, rest, rawQuery, fragment) ==
    IF Len(rest) >= 2 /\ rest[1] = "/" /\ rest[2] = "/"
    THEN URLParseSlashes(rawURL, scheme, SubSeq(rest, 3, Len(rest)),
                         Index(SubSeq(rest, 3, Len(rest)), "/"), rawQuery, fragment)
    ELSE [err |-> NilError, Scheme |-> scheme, Host |-> <<>>, Path |-> rest,
          RawQuery |-> rawQuery, Fragment |-> fragment]

URLParseQuery(rawURL, scheme, q, fragment) ==
    URLParseRest(rawURL, scheme, q.before, q.after, fragment)

URLParseScheme(rawURL, f, colon) ==
    IF colon = 0
    THEN URLError("parse %q: missing protocol scheme", rawURL)
    ELSE URLParseQuery(rawURL, SubSeq(f.before, 1, colon - 1),
                       Cut(SubSeq(f.before, colon + 1, Len(f.before)), "?"), f.after)

URLParseFragment(rawURL, f) == URLParseScheme(rawURL, f, Index(f.before, ":"))

URLParse(rawURL) == URLParseFragment(rawURL, Cut(rawURL, "#"))

\* (*url.URL).String.
URLString(u) ==
    u.Scheme \o <<":", "/", "/">> \o u.Host \o u.Path
        \o (IF u.RawQuery = <<>> THEN <<>> ELSE <<"?">> \o u.RawQuery)
        \o (IF u.Fragment = <<>> THEN <<>> ELSE <<"#">> \o u.Fragment)

(***************************************************************************)
(* SendCLIRequest and DefaultClientService.GetContextDecryptedData.        *)
(***************************************************************************)
NumCandidates == 6

NoRequest == [method |-> "", scheme |-> <<>>, host |-> <<>>, path |-> <<>>, rawQuery |-> <<>>]

\* The GET request SendCLIRequest builds: the base URL is formatted and
\* parsed, its query is replaced by the encoded parameters, and
\* http.NewRequest parses the resulting string once more.
BaseURL(cnf) ==
    (IF cnf.DisableHTTPS THEN <<"h", "t", "t", "p">> ELSE <<"h", "t", "t", "p", "s">>)
        \o <<":", "/", "/">> \o cnf.ServerURL \o <<"/", "c", "l", "i">>

NewRequest(r) ==
    IF r.err # NilError
    THEN [err |-> Errorf("failed to create request: %w", <<r.err>>), req |-> NoRequest]
    ELSE [err |-> NilError,
          req |-> [method |-> "GET", scheme |-> r.Scheme, host |-> r.Host,
                   path |-> r.Path, rawQuery |-> r.RawQuery]]

WithQuery(cnf, u) ==
    IF u.err # NilError
    THEN [err |-> Errorf("failed to parse URL: %w", <<u.err>>), req |-> NoRequest]
    ELSE NewRequest(URLParse(URLString([u EXCEPT !.RawQuery = Encode(cnf.ID, cnf.Branch)])))

CLIRequest(cnf) == WithQuery(cnf, URLParse(BaseURL(cnf)))

\* Mutant of Candidate: "Try 2" and "Try 3" change places.
CandidateSwaps23(cnf, i) ==
    LET aad == cnf.Secret \o <<"|">> \o cnf.SecretKey
    IN  CASE i = 1 -> [secret |-> cnf.SecretKey, aad |-> aad]
          [] i = 2 -> [secret |-> cnf.SecretKey, aad |-> cnf.Secret]
          [] i = 3 -> [secret |-> cnf.Secret, aad |-> cnf.SecretKey]
          [] i = 4 -> [secret |-> cnf.Secret, aad |-> aad]
          [] i = 5 -> [secret |-> cnf.SecretKey, aad |-> <<>>]
          [] OTHER -> [secret |-> cnf.Secret, aad |-> <<>>]

\* Mutant of Candidate: with the empty AAD, Secret is tried before SecretKey.
CandidateSwaps56(cnf, i) ==
    LET aad == cnf.Secret \o <<"|">> \o cnf.SecretKey
    IN  CASE i = 1 -> [secret |-> cnf.SecretKey, aad |-> aad]
          [] i = 2 -> [secret |-> cnf.Secret, aad |-> cnf.SecretKey]
          [] i = 3 -> [secret |-> cnf.SecretKey, aad |-> cnf.Secret]
          [] i = 4 -> [secret |-> cnf.Secret, aad |-> aad]
          [] i = 5 -> [secret |-> cnf.Secret, aad |-> <<>>]
          [] OTHER -> [secret |-> cnf.SecretKey, aad |-> <<>>]

\* The i-th (sharedSecret, aad) pair GetContextDecryptedData hands to Decrypt.
Candidate(cnf, i) ==
    LET aad == cnf.Secret \o <<"|">> \o cnf.SecretKey
    IN  CASE i = 1 -> [secret |-> cnf.SecretKey, aad |-> aad]
          [] i = 2 -> [secret |-> cnf.Secret, aad |-> cnf.SecretKey]
          [] i = 3 -> [secret |-> cnf.SecretKey, aad |-> cnf.Secret]
          [] i = 4 -> [secret |-> cnf.Secret, aad |-> aad]
          [] i = 5 -> [secret |-> cnf.SecretKey, aad |-> <<>>]
          [] OTHER -> [secret |-> cnf.Secret, aad |-> <<>>]

Return(result, err) ==
    /\ ret' = [result |-> result, err |-> err]
    /\ pc' = "done"

\* The error returned when no candidate opened the payload.
DecryptFailedError ==
    Errorf("failed to decrypt data: tried all common encryption key/AAD combinations", <<>>)

\* Mutant of SendCLIRequest: a failed httpClient.Do is tried again.
SendCLIRequestRetries ==
    /\ pc = "start"
    /\ \E r \in {CLIRequest(config)} :
           IF r.err # NilError
           THEN /\ Return(NilSlice, Errorf("failed to send CLI request: %w", <<r.err>>))
                /\ UNCHANGED <<wire, requests>>
           ELSE /\ requests' = Append(requests, r.req)
                /\ \/ /\ IF Len(requests) = 0
                         THEN UNCHANGED <<pc, ret>>
                         ELSE Return(NilSlice,
                                     Errorf("failed to send CLI request: %w",
                                            <<Errorf("failed to send GET request: %w", <<>>)>>))
                      /\ UNCHANGED wire
                   \/ /\ r.req.host # <<>>
                      /\ \E status \in Statuses : wire' = [wire EXCEPT !.status = status]
                      /\ pc' = "status"
                      /\ UNCHANGED ret
    /\ UNCHANGED <<appVars, cryptoVars, urlVars, config, calls>>

\* SendCLIRequest: the URL is built; when that succeeds the request goes
\* out, and httpClient.Do fails or the response arrives with its status.
\* A request whose URL has no host only fails.
SendCLIRequest ==
    /\ pc = "start"
    /\ \E r \in {CLIRequest(config)} :
           IF r.err # NilError
           THEN /\ Return(NilSlice, Errorf("failed to send CLI request: %w", <<r.err>>))
                /\ UNCHANGED <<wire, requests>>
           ELSE /\ requests' = Append(requests, r.req)
                /\ \/ /\ Return(NilSlice,
                                 Errorf("failed to send CLI request: %w",
                                        <<Errorf("failed to send GET request: %w", <<>>)>>))
                      /\ UNCHANGED wire
                   \/ /\ r.req.host # <<>>
                      /\ \E status \in Statuses : wire' = [wire EXCEPT !.status = status]
                      /\ pc' = "status"
                      /\ UNCHANGED ret
    /\ UNCHANGED <<appVars, cryptoVars, urlVars, config, calls>>

\* Mutant of CheckStatus: the status is not looked at.
CheckStatusIgnored ==
    /\ pc = "status"
    /\ pc' = "read"
    /\ UNCHANGED <<appVars, cryptoVars, urlVars, config, wire, requests, calls, ret>>

\* Mutant of CheckStatus: every 2xx status passes.
CheckStatusAccepts2xx ==
    /\ pc = "status"
    /\ IF wire.status < 200 \/ wire.status > 299
       THEN \E body \in Bodies({e \in Sealed : e.kind = "records"}) :
               /\ wire' = [wire EXCEPT !.body = body]
               /\ Return(NilSlice, Errorf("HTTP error %d: %s", <<wire.status, body>>))
       ELSE pc' = "read" /\ UNCHANGED <<wire, ret>>
    /\ UNCHANGED <<appVars, cryptoVars, urlVars, config, requests, calls>>

\* The status check: any status but 200 returns with the body in the error.
CheckStatus ==
    /\ pc = "status"
    /\ IF wire.status # StatusOK
       THEN \E body \in Bodies({e \in Sealed : e.kind = "records"}) :
               /\ wire' = [wire EXCEPT !.body = body]
               /\ Return(NilSlice, Errorf("HTTP error %d: %s", <<wire.status, body>>))
       ELSE pc' = "read" /\ UNCHANGED <<wire, ret>>
    /\ UNCHANGED <<appVars, cryptoVars, urlVars, config, requests, calls>>

\* Mutant of ReadBody: an error field that is a string is an error, empty or not.
ReadBodyAnyErrorString ==
    /\ pc = "read"
    /\ \E body \in Bodies(Sealed \cup Tampered) :
          /\ wire' = [wire EXCEPT !.body = body]
          /\ IF ~body.json
             THEN Return(NilSlice, Errorf("failed to unmarshal JSON: %w", <<>>))
             ELSE IF body.error.type = "string"
             THEN Return(NilSlice, Errorf("server error: %s", <<body.error.s>>))
             ELSE IF ~(body.data.type = "string") \/ body.data.payload.str = EmptyString
             THEN Return(NilSlice, Errorf("no encrypted data found in response", <<>>))
             ELSE pc' = "negotiate" /\ UNCHANGED ret
    /\ UNCHANGED <<appVars, cryptoVars, urlVars, config, requests, calls>>

\* Mutant of ReadBody: the data field is looked at before the error field.
ReadBodyDataFirst ==
    /\ pc = "read"
    /\ \E body \in Bodies(Sealed \cup Tampered) :
          /\ wire' = [wire EXCEPT !.body = body]
          /\ IF ~body.json
             THEN Return(NilSlice, Errorf("failed to unmarshal JSON: %w", <<>>))
             ELSE IF ~(body.data.type = "string") \/ body.data.payload.str = EmptyString
             THEN Return(NilSlice, Errorf("no encrypted data found in response", <<>>))
             ELSE IF body.error.type = "string" /\ body.error.s # <<>>
             THEN Return(NilSlice, Errorf("server error: %s", <<body.error.s>>))
             ELSE pc' = "negotiate" /\ UNCHANGED ret
    /\ UNCHANGED <<appVars, cryptoVars, urlVars, config, requests, calls>>

\* Mutant of ReadBody: an empty data string is handed on to Decrypt.
ReadBodyAcceptsEmptyData ==
    /\ pc = "read"
    /\ \E body \in Bodies(Sealed \cup Tampered) :
          /\ wire' = [wire EXCEPT !.body = body]
          /\ IF ~body.json
             THEN Return(NilSlice, Errorf("failed to unmarshal JSON: %w", <<>>))
             ELSE IF body.error.type = "string" /\ body.error.s # <<>>
             THEN Return(NilSlice, Errorf("server error: %s", <<body.error.s>>))
             ELSE IF ~(body.data.type = "string")
             THEN Return(NilSlice, Errorf("no encrypted data found in response", <<>>))
             ELSE pc' = "negotiate" /\ UNCHANGED ret
    /\ UNCHANGED <<appVars, cryptoVars, urlVars, config, requests, calls>>

\* The body is read and parsed, and the error and data fields are looked at.
ReadBody ==
    /\ pc = "read"
    /\ \E body \in Bodies(Sealed \cup Tampered) :
          /\ wire' = [wire EXCEPT !.body = body]
          /\ IF ~body.json
             THEN Return(NilSlice, Errorf("failed to unmarshal JSON: %w", <<>>))
             ELSE IF body.error.type = "string" /\ body.error.s # <<>>
             THEN Return(NilSlice, Errorf("server error: %s", <<body.error.s>>))
             ELSE IF ~(body.data.type = "string") \/ body.data.payload.str = EmptyString
             THEN Return(NilSlice, Errorf("no encrypted data found in response", <<>>))
             ELSE pc' = "negotiate" /\ UNCHANGED ret
    /\ UNCHANGED <<appVars, cryptoVars, urlVars, config, requests, calls>>

\* One "Try i" block: the next candidate is handed to s.crypto.Decrypt.
TryCandidate ==
    /\ pc = "negotiate"
    /\ Len(calls) < NumCandidates
    /\ LET c == Candidate(config, Len(calls) + 1)
           d == Decrypt(wire.body.data.payload.str, c.secret, c.aad)
       IN  /\ calls' = Append(calls, [secret |-> c.secret, aad |-> c.aad, err |-> d.err])
           /\ IF d.err = NilError
              THEN Return(d.result, NilError)
              ELSE UNCHANGED <<pc, ret>>
    /\ UNCHANGED <<appVars, cryptoVars, urlVars, config, wire, requests>>

\* Mutant of ReturnDecryptFailed: the error of the last attempt is wrapped.
ReturnDecryptFailedWrapsLast ==
    /\ pc = "negotiate"
    /\ Len(calls) = NumCandidates
    /\ Return(NilSlice, Errorf("failed to decrypt data: %w", <<calls[NumCandidates].err>>))
    /\ UNCHANGED <<appVars, cryptoVars, urlVars, config, wire, requests, calls>>

\* All six failed.
ReturnDecryptFailed ==
    /\ pc = "negotiate"
    /\ Len(calls) = NumCandidates
    /\ Return(NilSlice, DecryptFailedError)
    /\ UNCHANGED <<appVars, cryptoVars, urlVars, config, wire, requests, calls>>

\* The configurations of the fetch: the two secrets either way round behind
\* a host name, and one server address whose port url.Parse refuses.
Configs ==
    { [ID |-> <<"e">>, Secret |-> sa, SecretKey |-> sb, ServerURL |-> <<"h">>,
       Branch |-> <<"d">>, DisableHTTPS |-> FALSE] :
         <<sa, sb>> \in {<<(<<"a">>), (<<"b">>)>>, <<(<<"b">>), (<<"a">>)>>} }
    \cup
    { [ID |-> <<"e">>, Secret |-> <<"a">>, SecretKey |-> <<"b">>, ServerURL |-> <<"h", ":", "x">>,
       Branch |-> <<"d">>, DisableHTTPS |-> TRUE] }

CryptoIdle ==
    /\ cin = [data |-> NilSlice, secret |-> <<>>, aad |-> <<>>, nonce |-> <<>>]
    /\ cenv = NoEnvelope
    /\ cdec = NoDecrypt

Init ==
    /\ CryptoIdle
    /\ URLIdle
    /\ HandlerIdle /\ GoroutinesIdle /\ EncryptsIdle /\ FilesIdle /\ UpdateIdle
    /\ config \in Configs
    /\ pc = "start"
    /\ wire = NoResponse
    /\ requests = <<>>
    /\ calls = <<>>
    /\ ret = [result |-> NilSlice, err |-> NilError]

Next ==
    \/ SendCLIRequest
    \/ CheckStatus
    \/ ReadBody
    \/ TryCandidate
    \/ ReturnDecryptFailed

Spec == Init /\ [][Next]_vars

(***************************************************************************)
(* ParseURL: DefaultURLParser.ParseURL of pkg/stacksenv, and ParseURL of   *)
(* pkg/stackenv, which the command line calls.  Both return a Config and   *)
(* an error; panicked tells that the call ended in a run-time panic        *)
(* instead of returning.                                                   *)
(***************************************************************************)
DisableHTTPSKey == <<"d", "i", "s", "a", "b", "l", "e", "_", "h", "t", "t", "p", "s">>
TrueValue == <<"t", "r", "u", "e">>

Returned(cfg, err) == [config |-> cfg, err |-> err, panicked |-> FALSE]
Panicked == [config |-> ZeroConfig, err |-> NilError, panicked |-> TRUE]

\* Mutant of ParseOptions: a pair without '=' is skipped.
RECURSIVE ParseOptionsSkipsMalformed(_, _, _)
ParseOptionsSkipsMalformed(cfg, options, i) ==
    IF i > Len(options) THEN Returned(cfg, NilError)
    ELSE LET optionParts == Split(options[i], "=")
         IN  IF Len(optionParts) > 2
             THEN Returned(cfg, Errorf("invalid query parameter format: '%s'. Expected format: 'KEY=VALUE' (e.g., 'disable_https=true')",
                                       <<options[i]>>))
             ELSE IF Len(optionParts) < 2
             THEN ParseOptionsSkipsMalformed(cfg, options, i + 1)
             ELSE ParseOptionsSkipsMalformed(
                      IF optionParts[1] = DisableHTTPSKey
                      THEN [cfg EXCEPT !.DisableHTTPS = (optionParts[2] = TrueValue)]
                      ELSE cfg,
                      options, i + 1)

\* The loop over the query parameters, from the i-th on.
RECURSIVE ParseOptions(_, _, _)
ParseOptions(cfg, options, i) ==
    IF i > Len(options) THEN Returned(cfg, NilError)
    ELSE LET optionParts == Split(options[i], "=")
         IN  IF Len(optionParts) # 2
             THEN Returned(cfg, Errorf("invalid query parameter format: '%s'. Expected format: 'KEY=VALUE' (e.g., 'disable_https=true')",
                                       <<options[i]>>))
             ELSE ParseOptions(
                      IF optionParts[1] = DisableHTTPSKey
                      THEN [cfg EXCEPT !.DisableHTTPS = (optionParts[2] = TrueValue)]
                      ELSE cfg,
                      options, i + 1)

\* DefaultURLParser.ParseURL of pkg/stacksenv, step by step.
ParseQuery(cfg, branchAndOptions) ==
    IF Len(branchAndOptions) > 1
    THEN ParseOptions(cfg, Split(branchAndOptions[2], "&"), 1)
    ELSE Returned(cfg, NilError)

ParseBranch(cfg, branchAndOptions) ==
    IF Len(branchAndOptions) = 0
    THEN Returned(cfg, Errorf("invalid branch format: branch name is missing. Expected format: 'SERVER_URL/BRANCH' or 'SERVER_URL/BRANCH?disable_https=true'", <<>>))
    ELSE IF branchAndOptions[1] = <<>>
    THEN Returned([cfg EXCEPT !.Branch = branchAndOptions[1]],
                  Errorf("branch name is missing. Expected format: 'SERVER_URL/BRANCH'", <<>>))
    ELSE ParseQuery([cfg EXCEPT !.Branch = branchAndOptions[1]], branchAndOptions)

ParseServer(cfg, server, serverParts) ==
    IF Len(serverParts) # 2
    THEN Returned(cfg, Errorf("invalid server URL format: expected 'SERVER_URL/BRANCH' (server and branch separated by '/'), but got: %s", <<server>>))
    ELSE IF serverParts[1] = <<>>
    THEN Returned([cfg EXCEPT !.ServerURL = serverParts[1]],
                  Errorf("server URL is missing. Expected format: 'SERVER_URL/BRANCH'", <<>>))
    ELSE ParseBranch([cfg EXCEPT !.ServerURL = serverParts[1]], Split(serverParts[2], "?"))

CheckCredentials(cfg, server) ==
    IF cfg.ID = <<>>
    THEN Returned(cfg, Errorf("environment ID is missing in URL credentials. Expected format: 'ID:SECRET:SECRET_KEY'", <<>>))
    ELSE IF cfg.Secret = <<>>
    THEN Returned(cfg, Errorf("secret key is missing in URL credentials. Expected format: 'ID:SECRET:SECRET_KEY'", <<>>))
    ELSE IF cfg.SecretKey = <<>>
    THEN Returned(cfg, Errorf("secret key (second key) is missing in URL credentials. Expected format: 'ID:SECRET:SECRET_KEY'", <<>>))
    ELSE ParseServer(cfg, server, Split(server, "/"))

ParseCredentials(credentials, credParts, server) ==
    IF Len(credParts) # 3
    THEN Returned(ZeroConfig, Errorf("invalid credentials format in URL: expected 'ID:SECRET:SECRET_KEY' (three colon-separated values), but got: %s. Please verify your credentials are correctly formatted", <<credentials>>))
    ELSE CheckCredentials([ZeroConfig EXCEPT !.ID = credParts[1], !.Secret = credParts[2],
                                             !.SecretKey = credParts[3]],
                          server)

\* Mutant of ParseParts: the part before the first '@' and the part after
\* the last one are used, however many '@' there are.
ParsePartsFirstAndLast(str, parts) ==
    IF Len(parts) < 2
    THEN Returned(ZeroConfig, Errorf("invalid stacksenv URL format: missing '@' separator. Expected format: 'stacksenv://ID:SECRET:SECRET_KEY@SERVER_URL/BRANCH', but got: %s", <<str>>))
    ELSE ParseCredentials(parts[1], Split(parts[1], ":"), parts[Len(parts)])

ParseParts(str, parts) ==
    IF Len(parts) # 2
    THEN Returned(ZeroConfig, Errorf("invalid stacksenv URL format: missing '@' separator. Expected format: 'stacksenv://ID:SECRET:SECRET_KEY@SERVER_URL/BRANCH', but got: %s", <<str>>))
    ELSE ParseCredentials(parts[1], Split(parts[1], ":"), parts[2])

ParseURL(str) == ParseParts(str, Split(str, "@"))

\* The loop over the query parameters in ParseURL of pkg/stackenv: any
\* disable_https pair sets the flag.
RECURSIVE StackenvParseOptions(_, _, _)
StackenvParseOptions(cfg, options, i) ==
    IF i > Len(options) THEN Returned(cfg, NilError)
    ELSE LET optionParts == Split(options[i], "=")
         IN  IF Len(optionParts) # 2
             THEN Returned(cfg, Errorf("invalid Server URL: %s", <<options[i]>>))
             ELSE StackenvParseOptions(
                      IF optionParts[1] = DisableHTTPSKey
                      THEN [cfg EXCEPT !.DisableHTTPS = TRUE]
                      ELSE cfg,
                      options, i + 1)

\* ParseURL of pkg/stackenv, step by step.  parts is assigned the split of
\* the server part before the error for it is formatted with parts[1], the
\* second element, which does not exist when the server part has no '/';
\* the error for an empty split formats parts[2], which never exists.
StackenvParseBranch(cfg, brenchAndOptions) ==
    IF Len(brenchAndOptions) = 0
    THEN Panicked
    ELSE IF Len(brenchAndOptions) > 1
    THEN StackenvParseOptions([cfg EXCEPT !.Branch = brenchAndOptions[1]],
                              Split(brenchAndOptions[2], "&"), 1)
    ELSE Returned([cfg EXCEPT !.Branch = brenchAndOptions[1]], NilError)

StackenvParseServer(cfg, parts) ==
    IF Len(parts) # 2
    THEN IF Len(parts) < 2
         THEN Panicked
         ELSE Returned(cfg, Errorf("invalid Server URL: %s", <<parts[2]>>))
    ELSE StackenvParseBranch([cfg EXCEPT !.ServerURL = parts[1]], Split(parts[2], "?"))

StackenvParseCredentials(credentials, idAndKeyAndSecretKey, server) ==
    IF Len(idAndKeyAndSecretKey) # 3
    THEN Returned(ZeroConfig, Errorf("invalid ID and Key or Secret Key: %s", <<credentials>>))
    ELSE StackenvParseServer([ZeroConfig EXCEPT !.ID = idAndKeyAndSecretKey[1],
                                                !.Secret = idAndKeyAndSecretKey[2],
                                                !.SecretKey = idAndKeyAndSecretKey[3]],
                             Split(server, "/"))

StackenvParseParts(url, parts) ==
    IF Len(parts) # 2
    THEN Returned(ZeroConfig, Errorf("invalid URL: %s", <<url>>))
    ELSE StackenvParseCredentials(parts[1], Split(parts[1], ":"), parts[2])

StackenvParseURL(url) == StackenvParseParts(url, Split(url, "@"))

(***************************************************************************)
(* The URL round: an identifier is handed to one of the two ParseURL       *)
(* functions; Handler.HandleStacksenvURLCLI of pkg/stacksenv goes on to    *)
(* GetContextDecryptedData with the Config it got, which sends the         *)
(* request.                                                                *)
(***************************************************************************)
CredentialParts ==
    { <<"i", ":", "a", ":", "b">>, <<"i", ":", "a">>, <<"i", ":", "a", ":", "b", ":", "c">>,
      <<":", "a", ":", "b">>, <<"i", ":", ":", "b">>, <<"i", ":", "a", ":">>, <<>> }
AtParts == { <<>>, <<"@">>, <<"@", "x", "@">> }
ServerParts ==
    { <<"h">>, <<>>, <<"h", "?", "x">>, <<"h", "#", "x">>, <<"h", ":", "8">>, <<"h", ":", "x">> }
SlashParts == { <<>>, <<"/">>, <<"/", "x", "/">> }
BranchParts == { <<"d">>, <<>>, <<"d", "&">> }

\* Query parameters: disable_https with three values, another key, a pair
\* without '=' and a pair with two.
Options ==
    { DisableHTTPSKey \o <<"=">> \o TrueValue,
      DisableHTTPSKey \o <<"=", "f", "a", "l", "s", "e">>,
      DisableHTTPSKey \o <<"=", "T", "R", "U", "E">>,
      <<"k", "=", "t", "r", "u", "e">>,
      <<"k">>,
      <<"k", "=", "a", "=", "b">> }

\* strings.Join(options, "&").
RECURSIVE JoinOptions(_)
JoinOptions(options) ==
    IF options = <<>> THEN <<>>
    ELSE IF Len(options) = 1 THEN options[1]
    ELSE options[1] \o <<"&">> \o JoinOptions(Tail(options))

\* No query, or '?' and up to MaxOptions parameters.
Queries == {<<>>} \cup { <<"?">> \o JoinOptions(options) : options \in SeqsUpTo(Options, MaxOptions) }

\* The identifiers handed to ParseURL: every combination of the parts with
\* a short query, and the well-formed credentials with every query.
Identifiers ==
    { c \o a \o h \o sl \o b \o q :
        c \in CredentialParts, a \in AtParts, h \in ServerParts, sl \in SlashParts,
        b \in BranchParts, q \in {<<>>, <<"?">> \o DisableHTTPSKey \o <<"=">> \o TrueValue} }
    \cup
    { <<"i", ":", "a", ":", "b", "@">> \o h \o <<"/">> \o b \o q :
        h \in ServerParts, b \in BranchParts, q \in Queries }

URLInit ==
    /\ CryptoIdle
    /\ HandlerIdle /\ GoroutinesIdle /\ EncryptsIdle /\ FilesIdle /\ UpdateIdle
    /\ urlStr \in Identifiers
    /\ parsed = NoParse
    /\ config = ZeroConfig
    /\ pc = "off"
    /\ wire = NoResponse
    /\ requests = <<>>
    /\ calls = <<>>
    /\ ret = [result |-> NilSlice, err |-> NilError]

\* h.urlParser.ParseURL(url) of pkg/stacksenv.
CallParseURL ==
    /\ parsed.parser = "none"
    /\ \E r \in {ParseURL(urlStr)} :
          parsed' = [parser |-> "stacksenv", config |-> r.config, err |-> r.err,
                     panicked |-> r.panicked]
    /\ UNCHANGED <<appVars, cryptoVars, fetchVars, urlStr>>

\* ParseURL(url) of pkg/stackenv.
CallStackenvParseURL ==
    /\ parsed.parser = "none"
    /\ \E r \in {StackenvParseURL(urlStr)} :
          parsed' = [parser |-> "stackenv", config |-> r.config, err |-> r.err,
                     panicked |-> r.panicked]
    /\ UNCHANGED <<appVars, cryptoVars, fetchVars, urlStr>>

\* h.clientService.GetContextDecryptedData(&config), after ParseURL
\* returned without an error.
CallGetContextDecryptedData ==
    /\ parsed.parser = "stacksenv"
    /\ parsed.err = NilError
    /\ pc = "off"
    /\ config' = parsed.config
    /\ pc' = "start"
    /\ UNCHANGED <<appVars, cryptoVars, urlVars, wire, requests, calls, ret>>

URLNext ==
    \/ CallParseURL
    \/ CallStackenvParseURL
    \/ CallGetContextDecryptedData
    \/ SendCLIRequest

SpecURL == URLInit /\ [][URLNext]_vars

(***************************************************************************)
(* Encrypt calls in a row: DefaultCryptoService.Encrypt of pkg/stacksenv   *)
(* and Encrypt of pkg/encrypt, each reading its nonce from rand.Reader.    *)
(***************************************************************************)
MaxEncrypts == 3

\* Encrypt of pkg/encrypt: the ciphertext is appended to the nonce slice.
EncryptEncrypt(data, sharedSecret, aad, nonce) ==
    IF sharedSecret = <<>>
    THEN [out |-> EmptyString, err |-> Errorf("shared secret cannot be empty", <<>>)]
    ELSE IF Marshal(data).err # NilError
    THEN [out |-> EmptyString, err |-> Errorf("marshal failed: %w", <<Marshal(data).err>>)]
    ELSE [out |-> EncodeToString(nonce \o Seal(Sum256(sharedSecret), nonce, Marshal(data).text, aad)),
          err |-> NilError]

\* What io.ReadFull(rand.Reader, nonce) may leave in the nonce: any bytes,
\* the bytes of an earlier read included.
RandReads == Nonces

EncryptData == Slice(<<ContextData(<<"A">>, GoString(<<"x">>))>>)
EncryptAAD == <<"a">>

EncryptsInit ==
    /\ cin = [data |-> NilSlice, secret |-> <<>>, aad |-> <<>>, nonce |-> <<>>]
    /\ cenv = NoEnvelope
    /\ cdec = NoDecrypt
    /\ FetchIdle
    /\ URLIdle
    /\ HandlerIdle /\ GoroutinesIdle /\ FilesIdle /\ UpdateIdle
    /\ envelopes = <<>>

Envelope(pkg, secret, nonce, e) ==
    [pkg |-> pkg, secret |-> secret, read |-> nonce, out |-> e.out, err |-> e.err]

\* One more call of DefaultCryptoService.Encrypt.
EncryptAgain ==
    /\ Len(envelopes) < MaxEncrypts
    /\ \E secret \in Secrets, nonce \in RandReads :
          \E e \in {Encrypt(EncryptData, secret, EncryptAAD, nonce)} :
              envelopes' = Append(envelopes, Envelope("stacksenv", secret, nonce, e))
    /\ UNCHANGED <<cryptoVars, fetchVars, urlVars, handlerVars, procs, fileVars, updateVars>>

\* One more call of Encrypt of pkg/encrypt.
EncryptEncryptAgain ==
    /\ Len(envelopes) < MaxEncrypts
    /\ \E secret \in Secrets, nonce \in RandReads :
          \E e \in {EncryptEncrypt(EncryptData, secret, EncryptAAD, nonce)} :
              envelopes' = Append(envelopes, Envelope("encrypt", secret, nonce, e))
    /\ UNCHANGED <<cryptoVars, fetchVars, urlVars, handlerVars, procs, fileVars, updateVars>>

EncryptsNext == EncryptAgain \/ EncryptEncryptAgain

SpecEncrypts == EncryptsInit /\ [][EncryptsNext]_vars

(***************************************************************************)
(* The update command: compareVersions, performUpdate and checkForUpdates. *)
(***************************************************************************)
\* The byte of a character, for the characters of a version string: Go
\* compares strings byte by byte.
ByteOf(c) ==
    CASE c = "." -> 46
      [] c = "0" -> 48 [] c = "1" -> 49 [] c = "2" -> 50 [] c = "3" -> 51 [] c = "4" -> 52
      [] c = "5" -> 53 [] c = "6" -> 54 [] c = "7" -> 55 [] c = "8" -> 56 [] c = "9" -> 57
      [] c = "v" -> 118
      [] OTHER -> 40

\* v1 < v2 on Go strings: at the first byte that differs the smaller byte
\* decides, and a proper prefix is smaller.
RECURSIVE StringLess(_, _)
StringLess(v1, v2) ==
    IF v2 = <<>> THEN FALSE
    ELSE IF v1 = <<>> THEN TRUE
    ELSE IF Head(v1) # Head(v2) THEN ByteOf(Head(v1)) < ByteOf(Head(v2))
    ELSE StringLess(Tail(v1), Tail(v2))

\* compareVersions(v1, v2): the strings are compared as strings.
compareVersions(v1, v2) ==
    IF v1 = v2 THEN 0
    ELSE IF StringLess(v1, v2) THEN -1
    ELSE 1

\* strings.TrimPrefix(s, prefix) and strings.HasPrefix(s, prefix).
HasPrefix(s, prefix) == Len(s) >= Len(prefix) /\ SubSeq(s, 1, Len(prefix)) = prefix
TrimPrefix(s, prefix) == IF HasPrefix(s, prefix) THEN SubSeq(s, Len(prefix) + 1, Len(s)) ELSE s

\* strconv.Itoa(n) for n >= 0, as %d prints it.
DigitOf(d) ==
    CASE d = 0 -> "0" [] d = 1 -> "1" [] d = 2 -> "2" [] d = 3 -> "3" [] d = 4 -> "4"
      [] d = 5 -> "5" [] d = 6 -> "6" [] d = 7 -> "7" [] d = 8 -> "8" [] OTHER -> "9"

RECURSIVE Itoa(_)
Itoa(n) == IF n < 10 THEN <<DigitOf(n)>> ELSE Itoa(n \div 10) \o <<DigitOf(n % 10)>>

\* version.Version of a build that was not tagged.
Untracked == <<"(", "u", "n", "t", "r", "a", "c", "k", "e", "d", ")">>

\* The versions drawn: MAJOR.MINOR.PATCH with every component among these.
Components == {0, 9, 10}
VersionString(major, minor, patch) ==
    Itoa(major) \o <<".">> \o Itoa(minor) \o <<".">> \o Itoa(patch)
VersionStrings == { VersionString(a, b, c) : a \in Components, b \in Components, c \in Components }

NoUpdate == [cmd |-> "none", released |-> FALSE, compared |-> FALSE, cmp |-> 0, outcome |-> "none"]

UpdateInit ==
    /\ cin = [data |-> NilSlice, secret |-> <<>>, aad |-> <<>>, nonce |-> <<>>]
    /\ cenv = NoEnvelope
    /\ cdec = NoDecrypt
    /\ FetchIdle
    /\ URLIdle
    /\ HandlerIdle /\ GoroutinesIdle /\ EncryptsIdle /\ FilesIdle
    /\ versions \in [current : VersionStrings \cup {Untracked},
                     tag : { <<"v">> \o v : v \in VersionStrings }]
    /\ update = NoUpdate

Line(format, operands) == [format |-> format, operands |-> operands]

\* performUpdate: the release is fetched; unless the build is untracked,
\* nothing is installed when compareVersions says the running version is
\* not older; otherwise the asset is found, downloaded and installed, or
\* the installation fails (here at its first step, finding the asset).
performUpdate ==
    /\ update.cmd = "none"
    /\ \E released \in BOOLEAN, installed \in BOOLEAN :
          \E latestVersion \in {TrimPrefix(versions.tag, <<"v">>)} :
              IF ~released
              THEN /\ update' = [NoUpdate EXCEPT !.cmd = "update", !.outcome = "failed to get latest release: %w"]
                   /\ stdout' = <<Line("Current version: %s\n", <<versions.current>>)>>
              ELSE IF versions.current # Untracked /\ compareVersions(versions.current, latestVersion) >= 0
              THEN /\ update' = [cmd |-> "update", released |-> TRUE, compared |-> TRUE,
                                 cmp |-> compareVersions(versions.current, latestVersion),
                                 outcome |-> "nothing installed"]
                   /\ stdout' = << Line("Current version: %s\n", <<versions.current>>),
                                   Line("Latest version: %s\n", <<latestVersion>>),
                                   Line("You are already running the latest version", <<>>) >>
              ELSE /\ update' = [cmd |-> "update", released |-> TRUE,
                                 compared |-> versions.current # Untracked,
                                 cmp |-> IF versions.current # Untracked
                                         THEN compareVersions(versions.current, latestVersion)
                                         ELSE 0,
                                 outcome |-> IF installed THEN "installed" ELSE "install failed"]
                   /\ stdout' = << Line("Current version: %s\n", <<versions.current>>),
                                   Line("Latest version: %s\n", <<latestVersion>>),
                                   Line("Detected platform: %s/%s\n", <<>>) >>
                                 \o IF installed
                                    THEN << Line("Downloading %s...\n", <<>>),
                                            Line("Extracting...", <<>>),
                                            Line("Installing to %s...\n", <<>>),
                                            Line("Successfully updated to version %s\n", <<latestVersion>>) >>
                                    ELSE <<>>
    /\ UNCHANGED <<cryptoVars, fetchVars, urlVars, call, hpc, executed, environ, hret,
                   procs, envelopes, fileVars, versions>>

\* checkForUpdates: the release is fetched and the two versions are printed
\* with what compareVersions says of them.
checkForUpdates ==
    /\ update.cmd = "none"
    /\ \E released \in BOOLEAN :
          \E latestVersion \in {TrimPrefix(versions.tag, <<"v">>)},
             first \in { IF versions.current = Untracked
                         THEN Line("Current version: (development build)", <<>>)
                         ELSE Line("Current version: %s\n", <<versions.current>>) } :
              IF ~released
              THEN /\ update' = [NoUpdate EXCEPT !.cmd = "check", !.outcome = "failed to check for updates: %w"]
                   /\ stdout' = <<first>>
              ELSE IF versions.current = Untracked
              THEN /\ update' = [NoUpdate EXCEPT !.cmd = "check", !.released = TRUE,
                                                 !.outcome = "development build"]
                   /\ stdout' = << first, Line("Latest version: %s\n", <<latestVersion>>),
                                   Line("\nNote: You are running a development build. Update check may not be accurate.", <<>>) >>
              ELSE /\ update' = [cmd |-> "check", released |-> TRUE, compared |-> TRUE,
                                 cmp |-> compareVersions(versions.current, latestVersion),
                                 outcome |-> IF compareVersions(versions.current, latestVersion) < 0
                                             THEN "update available" ELSE "latest"]
                   /\ stdout' = << first, Line("Latest version: %s\n", <<latestVersion>>),
                                   IF compareVersions(versions.current, latestVersion) < 0
                                   THEN Line("\nUpdate available! Run 'stacksenv update' to update to version %s\n", <<latestVersion>>)
                                   ELSE Line("\nYou are running the latest version", <<>>) >>
    /\ UNCHANGED <<cryptoVars, fetchVars, urlVars, call, hpc, executed, environ, hret,
                   procs, envelopes, fileVars, versions>>

UpdateNext == performUpdate \/ checkForUpdates

SpecUpdate == UpdateInit /\ [][UpdateNext]_vars

(***************************************************************************)
(* Bootstrap of the configuration files: createLocalConfig (the init       *)
(* command) writes <cwd>/.stacksenv/config.json and                         *)
(* ensureGlobalConfigExists writes <home>/.stacksenv/config.  The disk     *)
(* holds the two .stacksenv directories (one when the working directory is *)
(* the home directory) and the two files.                                  *)
(***************************************************************************)
MaxBootstraps == 2

\* A .stacksenv directory: missing, a directory, a directory the user may
\* not search, or a regular file of that name.
DirStates == {"none", "dir", "locked", "file"}
\* A configuration file: missing, holding the default the program writes,
\* holding what the user put there, cut short by a failed write, or a
\* directory of that name.
FileStates == {"none", "default", "edited", "partial", "dir"}

LocalDir(disk) == IF disk.cwdIsHome THEN disk.home ELSE disk.cwd

\* os.Stat(configPath) returns a nil error: the path resolves.
Stat(dir, file) == dir = "dir" /\ file # "none"

\* os.MkdirAll(configDir, 0755); made tells whether a missing directory
\* can be made.
MkdirAll(dir, made) ==
    CASE dir = "none" -> IF made THEN [dir |-> "dir", err |-> NilError]
                         ELSE [dir |-> "none", err |-> Errorf("mkdir", <<>>)]
      [] dir = "file" -> [dir |-> dir, err |-> Errorf("mkdir", <<>>)]
      [] OTHER -> [dir |-> dir, err |-> NilError]

\* os.WriteFile(configPath, configJSON, 0644): the file is opened, created
\* or truncated, and written; written tells how far this gets.
WriteFile(dir, file, written) ==
    IF dir # "dir" \/ file = "dir" \/ written = "open failed"
    THEN [file |-> file, err |-> Errorf("open", <<>>)]
    ELSE IF written = "write failed"
    THEN [file |-> "partial", err |-> Errorf("write", <<>>)]
    ELSE [file |-> "default", err |-> NilError]

WriteOutcomes == {"written", "open failed", "write failed"}

WithLocalDir(disk, dir) == IF disk.cwdIsHome THEN [disk EXCEPT !.home = dir] ELSE [disk EXCEPT !.cwd = dir]

\* createLocalConfig after os.Stat did not find the file.
CreateLocalConfigFile(disk, m, written) ==
    IF m.err # NilError
    THEN [disk |-> disk, found |-> FALSE,
          err |-> Errorf("failed to create config directory: %w", <<m.err>>)]
    ELSE [disk |-> [WithLocalDir(disk, m.dir) EXCEPT !.local = WriteFile(m.dir, disk.local, written).file],
          found |-> FALSE,
          err |-> IF WriteFile(m.dir, disk.local, written).err # NilError
                  THEN Errorf("failed to write config file: %w",
                              <<WriteFile(m.dir, disk.local, written).err>>)
                  ELSE NilError]

\* Mutant of createLocalConfig: the file is written without looking for it.
createLocalConfigOverwrites(disk, getwd, made, written) ==
    IF ~getwd
    THEN [disk |-> disk, found |-> FALSE,
          err |-> Errorf("failed to get current working directory: %w", <<>>)]
    ELSE CreateLocalConfigFile(disk, MkdirAll(LocalDir(disk), made), written)

\* createLocalConfig(): (the disk afterwards, whether os.Stat found the
\* file, the error returned).
createLocalConfig(disk, getwd, made, written) ==
    IF ~getwd
    THEN [disk |-> disk, found |-> FALSE,
          err |-> Errorf("failed to get current working directory: %w", <<>>)]
    ELSE IF Stat(LocalDir(disk), disk.local)
    THEN [disk |-> disk, found |-> TRUE,
          err |-> Errorf("local config file already exists: %s", <<>>)]
    ELSE CreateLocalConfigFile(disk, MkdirAll(LocalDir(disk), made), written)

\* ensureGlobalConfigExists after os.Stat did not find the file.
EnsureGlobalConfigFile(disk, m, written) ==
    IF m.err # NilError
    THEN [disk |-> disk, found |-> FALSE, err |-> m.err]
    ELSE [disk |-> [disk EXCEPT !.home = m.dir,
                                !.global = WriteFile(m.dir, disk.global, written).file],
          found |-> FALSE,
          err |-> WriteFile(m.dir, disk.global, written).err]

\* ensureGlobalConfigExists(configPath).
ensureGlobalConfigExists(disk, made, written) ==
    IF Stat(disk.home, disk.global)
    THEN [disk |-> disk, found |-> TRUE, err |-> NilError]
    ELSE EnsureGlobalConfigFile(disk, MkdirAll(disk.home, made), written)

\* A file is there only inside a directory.
Disks ==
    { d \in [cwdIsHome : BOOLEAN, cwd : DirStates, home : DirStates,
             local : FileStates \ {"partial"}, global : FileStates \ {"partial"}] :
        /\ d.cwdIsHome => d.cwd = "none"
        /\ LocalDir(d) \in {"none", "file"} => d.local = "none"
        /\ d.home \in {"none", "file"} => d.global = "none" }

ConfigInit ==
    /\ cin = [data |-> NilSlice, secret |-> <<>>, aad |-> <<>>, nonce |-> <<>>]
    /\ cenv = NoEnvelope
    /\ cdec = NoDecrypt
    /\ FetchIdle
    /\ URLIdle
    /\ HandlerIdle /\ GoroutinesIdle /\ EncryptsIdle /\ UpdateIdle
    /\ fs \in Disks
    /\ cfgret = <<>>

\* The init command: createLocalConfig, and a line printed when it returns
\* no error.
initCmd ==
    /\ Len(cfgret) < MaxBootstraps
    /\ \E getwd \in BOOLEAN, made \in BOOLEAN, written \in WriteOutcomes :
          \E r \in {createLocalConfig(fs, getwd, made, written)} :
              /\ fs' = r.disk
              /\ cfgret' = Append(cfgret, [op |-> "createLocalConfig", found |-> r.found, err |-> r.err])
              /\ stdout' = IF r.err = NilError
                           THEN Append(stdout, Line("Initialized project configuration at: %s\n", <<>>))
                           ELSE stdout
    /\ UNCHANGED <<cryptoVars, fetchVars, urlVars, call, hpc, executed, environ, hret,
                   procs, envelopes, updateVars>>

\* initViper calls ensureGlobalConfigExists when no configuration was found.
EnsureGlobalConfigExists ==
    /\ Len(cfgret) < MaxBootstraps
    /\ \E made \in BOOLEAN, written \in WriteOutcomes :
          \E r \in {ensureGlobalConfigExists(fs, made, written)} :
              /\ fs' = r.disk
              /\ cfgret' = Append(cfgret, [op |-> "ensureGlobalConfigExists", found |-> r.found, err |-> r.err])
    /\ UNCHANGED <<cryptoVars, fetchVars, urlVars, handlerVars, procs, envelopes, updateVars>>

ConfigNext == initCmd \/ EnsureGlobalConfigExists

SpecConfig == ConfigInit /\ [][ConfigNext]_vars

(***************************************************************************)
(* The handlers: Handler.HandleStacksenvURLCLI and HandleStacksENV of      *)
(* pkg/stacksenv, HandleStacksenvURLCLI of pkg/stackenv, and the public    *)
(* ParseURL and GetContextDecryptedData called on their own.               *)
(***************************************************************************)
\* The protocol prefix the handlers trim.
Scheme == <<"s", "t", "a", "c", "k", "s", "e", "n", "v", ":", "/", "/">>

\* The credentials of the environment: Secret is "S" and SecretKey is "K".
GoodURL == <<"i", ":", "S", ":", "K", "@", "h", "/", "d">>
GoodConfig ==
    [ID |-> <<"i">>, Secret |-> <<"S">>, SecretKey |-> <<"K">>, ServerURL |-> <<"h">>,
     Branch |-> <<"d">>, DisableHTTPS |-> FALSE]

\* The URLs handed to the handlers and to ParseURL: none, the identifier
\* bare, with the prefix and with the prefix twice, the prefix alone, and
\* identifiers with four credentials, without '@', without a branch, with
\* an empty Secret, with a query and with a query parameter that is no pair.
HandlerURLs ==
    { <<>>, GoodURL, Scheme \o GoodURL, Scheme, Scheme \o Scheme \o GoodURL,
      GoodURL \o <<"?">> \o DisableHTTPSKey \o <<"=">> \o TrueValue,
      <<"i", ":", "S", ":", "K", ":", "x", "@", "h", "/", "d">>,
      Scheme \o <<"i", ":", "S", ":", "K", "h", "/", "d">>,
      <<"i", ":", "S", ":", "K", "@", "h">>,
      <<"i", ":", ":", "K", "@", "h", "/", "d">>,
      Scheme \o GoodURL \o <<"?", "k">> }

\* The command line after the URL: nothing, or a command and one argument.
HandlerArgs == { <<>>, << <<"c">>, <<"x">> >> }

\* The Config literals handed over in config mode and to
\* GetContextDecryptedData: complete, or with one required property empty.
HandlerConfigs ==
    { GoodConfig,
      [GoodConfig EXCEPT !.ID = <<>>], [GoodConfig EXCEPT !.Secret = <<>>],
      [GoodConfig EXCEPT !.SecretKey = <<>>], [GoodConfig EXCEPT !.ServerURL = <<>>],
      [GoodConfig EXCEPT !.Branch = <<>>] }

\* The properties of the environment as the server holds them: the same
\* name twice, and values that are a string, a number, a boolean and null.
HandlerRecords ==
    { ContextData(<<"A">>, GoString(<<"y">>)), ContextData(<<"A">>, GoString(<<"w">>)),
      ContextData(<<"B">>, GoFloat64(2)), ContextData(<<"C">>, GoBool(TRUE)),
      ContextData(<<"D">>, GoNil) }

\* The payloads of the server: a record list sealed with SecretKey and the
\* AAD "Secret|SecretKey", and one sealed with a key the client has not got.
HandlerPayloads ==
    { [kind |-> "records", data |-> data, secret |-> GoodConfig.SecretKey,
       aad |-> GoodConfig.Secret \o <<"|">> \o GoodConfig.SecretKey, tampered |-> FALSE,
       str |-> Encrypt(data, GoodConfig.SecretKey,
                       GoodConfig.Secret \o <<"|">> \o GoodConfig.SecretKey, NonceOf(7)).out] :
         data \in SlicesOf(HandlerRecords) }
    \cup
    { [kind |-> "records", data |-> Slice(<<ContextData(<<"A">>, GoString(<<"y">>))>>),
       secret |-> <<"z">>, aad |-> <<>>, tampered |-> FALSE,
       str |-> Encrypt(Slice(<<ContextData(<<"A">>, GoString(<<"y">>))>>), <<"z">>, <<>>,
                       NonceOf(7)).out] }

\* The process environment before the call.
InitialEnviron == << [name |-> <<"A">>, value |-> <<"o">>] >>

\* The "Try 1" to "Try 6" blocks from the i-th on: what
\* GetContextDecryptedData returns, and the Decrypt calls it made.
RECURSIVE Negotiate(_, _, _, _)
Negotiate(cnf, encryptedData, i, tried) ==
    IF i > NumCandidates
    THEN [result |-> NilSlice, err |-> DecryptFailedError, calls |-> tried]
    ELSE LET c == Candidate(cnf, i)
             d == Decrypt(encryptedData, c.secret, c.aad)
         IN  IF d.err = NilError
             THEN [result |-> d.result, err |-> NilError,
                   calls |-> Append(tried, [secret |-> c.secret, aad |-> c.aad, err |-> d.err])]
             ELSE Negotiate(cnf, encryptedData, i + 1,
                            Append(tried, [secret |-> c.secret, aad |-> c.aad, err |-> d.err]))

\* GetContextDecryptedData from the response on: the status check, the
\* body and its error and data fields, and the negotiation.
HandleResponse(cnf, status, body) ==
    IF status # StatusOK
    THEN [result |-> NilSlice, err |-> Errorf("HTTP error %d: %s", <<status, body>>),
          calls |-> <<>>]
    ELSE IF ~body.json
    THEN [result |-> NilSlice, err |-> Errorf("failed to unmarshal JSON: %w", <<>>),
          calls |-> <<>>]
    ELSE IF body.error.type = "string" /\ body.error.s # <<>>
    THEN [result |-> NilSlice, err |-> Errorf("server error: %s", <<body.error.s>>),
          calls |-> <<>>]
    ELSE IF ~(body.data.type = "string") \/ body.data.payload.str = EmptyString
    THEN [result |-> NilSlice, err |-> Errorf("no encrypted data found in response", <<>>),
          calls |-> <<>>]
    ELSE Negotiate(cnf, body.data.payload.str, 1, <<>>)

\* fmt.Sprintf("%v", value) for the values a decoded record holds.
FormatValue(value) ==
    CASE value.kind = "string" -> value.s
      [] value.kind = "bool" ->
            IF value.n = 1 THEN <<"t", "r", "u", "e">> ELSE <<"f", "a", "l", "s", "e">>
      [] value.kind = "nil" -> <<"<", "n", "i", "l", ">">>
      [] OTHER -> Itoa(value.n)

\* One entry of envVars: the type assertion to string, %v for the rest, and
\* "%s=%s".
EnvVar(contextData) ==
    contextData.Property \o <<"=">> \o
        (IF contextData.Value.kind = "string" THEN contextData.Value.s
         ELSE FormatValue(contextData.Value))

\* Mutant of EnvVars: the list is built from the last record to the first.
EnvVarsReversed(originalURL, properties) ==
    IF originalURL # <<>> /\ Len(properties.items) > 0
    THEN [i \in 1..Len(properties.items) |->
             EnvVar(properties.items[Len(properties.items) + 1 - i])]
    ELSE <<>>

\* envVars as HandleStacksenvURLCLI prepares it.
EnvVars(originalURL, properties) ==
    IF originalURL # <<>> /\ Len(properties.items) > 0
    THEN [i \in 1..Len(properties.items) |-> EnvVar(properties.items[i])]
    ELSE <<>>

\* os.Environ(): "name=value" for every variable.
Environ(env) == [i \in 1..Len(env) |-> env[i].name \o <<"=">> \o env[i].value]

\* cmd.Env as Execute sets it: left nil, the child inherits the
\* environment of the process; otherwise os.Environ() and then env.
CmdEnv(env, osEnv) == IF Len(env) > 0 THEN Environ(osEnv) \o env ELSE <<>>

\* os.Setenv(key, value): an empty key is refused, a variable that exists
\* is replaced, a new one is added.
Setenv(env, key, value) ==
    IF key = <<>> THEN env
    ELSE IF \E i \in 1..Len(env) : env[i].name = key
    THEN [i \in 1..Len(env) |->
             IF env[i].name = key THEN [name |-> key, value |-> value] ELSE env[i]]
    ELSE Append(env, [name |-> key, value |-> value])

\* The loop of HandleStacksENV over the properties, from the i-th on: each
\* value is asserted to be a string, which panics when it is not one.
RECURSIVE SetenvAll(_, _, _)
SetenvAll(env, items, i) ==
    IF i > Len(items) THEN [env |-> env, panicked |-> FALSE]
    ELSE IF items[i].Value.kind # "string" THEN [env |-> env, panicked |-> TRUE]
    ELSE SetenvAll(Setenv(env, items[i].Property, items[i].Value.s), items, i + 1)

\* strings.Join(elems, sep).
RECURSIVE Join(_, _)
Join(elems, sep) ==
    IF elems = <<>> THEN <<>>
    ELSE IF Len(elems) = 1 THEN elems[1]
    ELSE elems[1] \o sep \o Join(Tail(elems), sep)

\* What fmt.Println prints for a []string and for a Config.
FormatArgs(args) == <<"[">> \o Join(args, <<" ">>) \o <<"]">>
FormatConfig(cfg) ==
    <<"{">> \o cfg.ID \o <<" ">> \o cfg.Secret \o <<" ">> \o cfg.SecretKey \o <<" ">>
        \o cfg.ServerURL \o <<" ">> \o cfg.Branch \o <<" ">>
        \o (IF cfg.DisableHTTPS THEN <<"t", "r", "u", "e">> ELSE <<"f", "a", "l", "s", "e">>)
        \o <<"}">>

\* The calls made: each function with the arguments it takes.  A
\* RequestConfig carries a URL, a Config, both or neither.
Call(fn, url, args, nilCnf, hasConfig, cfg, setOSEnv) ==
    [fn |-> fn, url |-> url, args |-> args, nilCnf |-> nilCnf, hasConfig |-> hasConfig,
     Config |-> cfg, SetOSEnv |-> setOSEnv]

HandlerCalls ==
    { Call("ParseURL", url, <<>>, FALSE, FALSE, ZeroConfig, FALSE) : url \in HandlerURLs }
    \cup
    { Call(fn, url, args, FALSE, FALSE, ZeroConfig, FALSE) :
        fn \in {"HandleStacksenvURLCLI", "stackenv.HandleStacksenvURLCLI"},
        url \in HandlerURLs, args \in HandlerArgs }
    \cup
    { Call("GetContextDecryptedData", <<>>, <<>>, FALSE, TRUE, cfg, FALSE) :
        cfg \in HandlerConfigs }
    \cup
    { Call("HandleStacksENV", <<>>, <<>>, TRUE, FALSE, ZeroConfig, FALSE) }
    \cup
    { Call("HandleStacksENV", url, <<>>, FALSE, FALSE, ZeroConfig, setOSEnv) :
        url \in HandlerURLs, setOSEnv \in BOOLEAN }
    \cup
    { Call("HandleStacksENV", url, <<>>, FALSE, TRUE, cfg, setOSEnv) :
        url \in {<<>>, Scheme \o GoodURL}, cfg \in HandlerConfigs, setOSEnv \in BOOLEAN }

HandlerInit ==
    /\ CryptoIdle
    /\ URLIdle
    /\ GoroutinesIdle /\ EncryptsIdle /\ FilesIdle /\ UpdateIdle
    /\ config = ZeroConfig
    /\ pc = "off"
    /\ wire = NoResponse
    /\ requests = <<>>
    /\ calls = <<>>
    /\ ret = [result |-> NilSlice, err |-> NilError]
    /\ call \in HandlerCalls
    /\ hpc = "call"
    /\ stdout = <<>>
    /\ executed = <<>>
    /\ environ = InitialEnviron
    /\ hret = NoReturn

\* What no handler touches.
idleVars == <<cryptoVars, procs, envelopes, fileVars, updateVars>>

HandlerReturns(properties, err) ==
    /\ hret' = [returned |-> TRUE, panicked |-> FALSE, properties |-> properties, err |-> err]
    /\ hpc' = "done"

HandlerPanics ==
    /\ hret' = [returned |-> FALSE, panicked |-> TRUE, properties |-> NilSlice, err |-> NilError]
    /\ hpc' = "done"

\* The call of a parser as the URL round records it.
ParserCalled(parser, url, r) ==
    /\ urlStr' = url
    /\ parsed' = [parser |-> parser, config |-> r.config, err |-> r.err, panicked |-> r.panicked]

\* GetContextDecryptedData is entered with a Config.
Fetch(cnf) ==
    /\ config' = cnf
    /\ pc' = "start"
    /\ hpc' = "fetch"

\* The public ParseURL, called by a program.
PublicParseURL ==
    /\ hpc = "call"
    /\ call.fn = "ParseURL"
    /\ \E r \in {ParseURL(call.url)} :
          /\ ParserCalled("stacksenv", call.url, r)
          /\ HandlerReturns(NilSlice, r.err)
    /\ UNCHANGED <<idleVars, fetchVars, call, stdout, executed, environ>>

\* GetContextDecryptedData called by a program with a Config of its own,
\* and its return.
GetContextDecryptedData ==
    /\ hpc = "call"
    /\ call.fn = "GetContextDecryptedData"
    /\ Fetch(call.Config)
    /\ UNCHANGED <<idleVars, urlVars, wire, requests, calls, ret, call, stdout, executed,
                   environ, hret>>

GetContextDecryptedDataReturns ==
    /\ hpc = "fetch"
    /\ pc = "done"
    /\ call.fn = "GetContextDecryptedData"
    /\ HandlerReturns(ret.result, ret.err)
    /\ UNCHANGED <<idleVars, urlVars, fetchVars, call, stdout, executed, environ>>

\* GetContextDecryptedData from the response on, when a handler or a
\* program called it.
ReceiveResponse ==
    /\ pc = "status"
    /\ \E body \in (IF wire.status = StatusOK THEN Bodies(HandlerPayloads) ELSE Bodies({})) :
          \E r \in {HandleResponse(config, wire.status, body)} :
             /\ wire' = [wire EXCEPT !.body = body]
             /\ calls' = r.calls
             /\ Return(r.result, r.err)
    /\ UNCHANGED <<appVars, cryptoVars, urlVars, config, requests>>

\* DefaultCommandExecutor.Execute: the command is run, which succeeds or
\* fails.
Execute(command, args, env) ==
    /\ executed' = Append(executed, [command |-> command, args |-> args, env |-> env,
                                     Env |-> CmdEnv(env, environ)])
    /\ \/ HandlerReturns(NilSlice, NilError)
       \/ HandlerReturns(NilSlice,
                         Errorf("failed to execute command '%s %s': %w",
                                <<command, Join(args, <<" ">>)>>))

\* HandleStacksenvURLCLI from "Execute command if provided" on.
RunCommand(properties) ==
    IF Len(call.args) = 0
    THEN HandlerReturns(NilSlice, NilError) /\ UNCHANGED executed
    ELSE Execute(call.args[1], Tail(call.args), EnvVars(call.url, properties))

\* Handler.HandleStacksenvURLCLI up to the call of GetContextDecryptedData:
\* the prefix is trimmed and what is left is parsed; with no URL, or
\* nothing left of it, the handler goes on to the command at once.
HandleStacksenvURLCLI ==
    /\ hpc = "call"
    /\ call.fn = "HandleStacksenvURLCLI"
    /\ \E url \in {TrimPrefix(call.url, Scheme)} :
          IF call.url = <<>> \/ url = <<>>
          THEN /\ RunCommand(NilSlice)
               /\ UNCHANGED <<urlVars, config, pc>>
          ELSE \E r \in {ParseURL(url)} :
                  /\ ParserCalled("stacksenv", url, r)
                  /\ IF r.err # NilError
                     THEN /\ HandlerReturns(NilSlice,
                                            Errorf("failed to parse stacksenv URL: %w", <<r.err>>))
                          /\ UNCHANGED <<config, pc, executed>>
                     ELSE /\ Fetch(r.config)
                          /\ UNCHANGED <<hret, executed>>
    /\ UNCHANGED <<idleVars, wire, requests, calls, ret, call, stdout, environ>>

\* The lines printed after the fetch: the count, and each name masked.
PropertyLines(properties) ==
    <<Line("Properties: %d\n", <<Itoa(Len(properties.items))>>)>>
        \o [i \in 1..Len(properties.items) |-> Line("%s = ***\n", <<properties.items[i].Property>>)]

\* Mutant of HandleStacksenvURLCLIResumes: the error of the fetch is dropped.
HandleStacksenvURLCLIIgnoresFetchError ==
    /\ hpc = "fetch"
    /\ pc = "done"
    /\ call.fn = "HandleStacksenvURLCLI"
    /\ stdout' = stdout \o PropertyLines(ret.result)
    /\ RunCommand(ret.result)
    /\ UNCHANGED <<idleVars, urlVars, fetchVars, call, environ>>

\* Handler.HandleStacksenvURLCLI from the return of GetContextDecryptedData
\* on.
HandleStacksenvURLCLIResumes ==
    /\ hpc = "fetch"
    /\ pc = "done"
    /\ call.fn = "HandleStacksenvURLCLI"
    /\ IF ret.err # NilError
       THEN /\ HandlerReturns(NilSlice, Errorf("failed to fetch context data: %w", <<ret.err>>))
            /\ UNCHANGED <<stdout, executed>>
       ELSE /\ stdout' = stdout \o PropertyLines(ret.result)
            /\ RunCommand(ret.result)
    /\ UNCHANGED <<idleVars, urlVars, fetchVars, call, environ>>

\* The validation of config mode.
ValidateConfig(cfg) ==
    IF cfg.ID = <<>> THEN Errorf("required property 'ID' is missing", <<>>)
    ELSE IF cfg.Secret = <<>> THEN Errorf("required property 'Secret' is missing", <<>>)
    ELSE IF cfg.SecretKey = <<>> THEN Errorf("required property 'SecretKey' is missing", <<>>)
    ELSE IF cfg.ServerURL = <<>> THEN Errorf("required property 'ServerURL' is missing", <<>>)
    ELSE IF cfg.Branch = <<>> THEN Errorf("required property 'Branch' is missing", <<>>)
    ELSE NilError

\* HandleStacksENV up to the call of GetContextDecryptedData: URL mode,
\* config mode, or neither.
HandleStacksENV ==
    /\ hpc = "call"
    /\ call.fn = "HandleStacksENV"
    /\ IF ~call.nilCnf /\ call.url # <<>>
       THEN \E r \in {ParseURL(TrimPrefix(call.url, Scheme))} :
               /\ ParserCalled("stacksenv", TrimPrefix(call.url, Scheme), r)
               /\ IF r.err # NilError
                  THEN /\ HandlerReturns(NilSlice,
                                         Errorf("failed to parse stacksenv URL: %w", <<r.err>>))
                       /\ UNCHANGED <<config, pc>>
                  ELSE Fetch(r.config) /\ UNCHANGED hret
       ELSE IF ~call.nilCnf /\ call.hasConfig
       THEN /\ IF ValidateConfig(call.Config) # NilError
               THEN HandlerReturns(NilSlice, ValidateConfig(call.Config)) /\ UNCHANGED <<config, pc>>
               ELSE Fetch(call.Config) /\ UNCHANGED hret
            /\ UNCHANGED urlVars
       ELSE /\ HandlerReturns(NilSlice,
                              Errorf("either URL or Config with required properties must be provided", <<>>))
            /\ UNCHANGED <<urlVars, config, pc>>
    /\ UNCHANGED <<idleVars, wire, requests, calls, ret, call, stdout, executed, environ>>

\* HandleStacksENV from the return of GetContextDecryptedData on: with
\* SetOSEnv the properties are put into the environment of the process.
HandleStacksENVResumes ==
    /\ hpc = "fetch"
    /\ pc = "done"
    /\ call.fn = "HandleStacksENV"
    /\ IF ret.err # NilError
       THEN /\ HandlerReturns(NilSlice, Errorf("failed to fetch context data: %w", <<ret.err>>))
            /\ UNCHANGED environ
       ELSE IF call.SetOSEnv
       THEN \E r \in {SetenvAll(environ, ret.result.items, 1)} :
               /\ environ' = r.env
               /\ IF r.panicked THEN HandlerPanics ELSE HandlerReturns(ret.result, NilError)
       ELSE /\ HandlerReturns(ret.result, NilError)
            /\ UNCHANGED environ
    /\ UNCHANGED <<idleVars, urlVars, fetchVars, call, stdout, executed>>

\* HandleStacksenvURLCLI of pkg/stackenv, which the command line calls: it
\* prints its arguments, parses the URL when there is one, prints the
\* Config and runs the command in the environment of the process.
StackenvHandleStacksenvURLCLI ==
    /\ hpc = "call"
    /\ call.fn = "stackenv.HandleStacksenvURLCLI"
    /\ \E r \in {IF call.url # <<>> THEN StackenvParseURL(call.url)
                 ELSE Returned(ZeroConfig, NilError)} :
          /\ IF call.url # <<>> THEN ParserCalled("stackenv", call.url, r) ELSE UNCHANGED urlVars
          /\ stdout' = <<Line("Handling stacksenv URL: ", <<FormatArgs(call.args), call.url>>)>>
                  \o (IF call.url # <<>> /\ ~r.panicked /\ r.err = NilError
                      THEN <<Line("Handling stacksenv URL: ", <<FormatConfig(r.config)>>)>>
                      ELSE <<>>)
          /\ IF r.panicked
             THEN HandlerPanics /\ UNCHANGED executed
             ELSE IF r.err # NilError
             THEN /\ HandlerReturns(NilSlice,
                                    Errorf("failed to parse stacksenv URL: %w", <<r.err>>))
                  /\ UNCHANGED executed
             ELSE IF Len(call.args) > 0
             THEN Execute(call.args[1], Tail(call.args), <<>>)
             ELSE HandlerReturns(NilSlice, NilError) /\ UNCHANGED executed
    /\ UNCHANGED <<idleVars, fetchVars, call, environ>>

HandlerNext ==
    \/ PublicParseURL
    \/ GetContextDecryptedData
    \/ GetContextDecryptedDataReturns
    \/ HandleStacksenvURLCLI
    \/ HandleStacksenvURLCLIResumes
    \/ HandleStacksENV
    \/ HandleStacksENVResumes
    \/ StackenvHandleStacksenvURLCLI
    \/ SendCLIRequest
    \/ ReceiveResponse

SpecHandler == HandlerInit /\ [][HandlerNext]_vars

(***************************************************************************)
(* Two goroutines, each in a call of HandleStacksENV with a RequestConfig  *)
(* of its own.  What a call holds in local variables is the goroutine's;   *)
(* the environment of the process is the one thing both reach.             *)
(***************************************************************************)
Goroutines == {1, 2}

\* The two configurations: the branches differ, and one is given as a
\* Config, the other as a URL.
OtherURL == Scheme \o <<"i", ":", "S", ":", "K", "@", "h", "/", "e">>
GoroutineCalls(setOSEnv1, setOSEnv2) ==
    << Call("HandleStacksENV", <<>>, <<>>, FALSE, TRUE, GoodConfig, setOSEnv1),
       Call("HandleStacksENV", OtherURL, <<>>, FALSE, FALSE, ZeroConfig, setOSEnv2) >>

\* What the server holds for a branch.
BranchData ==
    { Slice(<<>>),
      Slice(<<ContextData(<<"A">>, GoString(<<"y">>))>>),
      Slice(<<ContextData(<<"A">>, GoString(<<"w">>))>>),
      Slice(<<ContextData(<<"A">>, GoString(<<"y">>)), ContextData(<<"B">>, GoFloat64(2))>>),
      Slice(<<ContextData(<<"C">>, GoString(<<"w">>)), ContextData(<<"A">>, GoString(<<"w">>))>>) }

\* The body the server answers with: the list sealed as in HandlerPayloads.
BodyOf(data) ==
    [json |-> TRUE, error |-> [type |-> "absent", s |-> <<>>],
     data |-> [type |-> "string",
               payload |-> [kind |-> "records", data |-> data, secret |-> GoodConfig.SecretKey,
                            aad |-> GoodConfig.Secret \o <<"|">> \o GoodConfig.SecretKey,
                            tampered |-> FALSE,
                            str |-> Encrypt(data, GoodConfig.SecretKey,
                                            GoodConfig.Secret \o <<"|">> \o GoodConfig.SecretKey,
                                            NonceOf(7)).out]]]

Goroutine(cnf, data) ==
    [cnf |-> cnf, data |-> data, pc |-> "call", config |-> ZeroConfig,
     properties |-> NilSlice, i |-> 1, ret |-> NoReturn]

ConcurrentInit ==
    /\ CryptoIdle
    /\ FetchIdle
    /\ URLIdle
    /\ EncryptsIdle /\ FilesIdle /\ UpdateIdle
    /\ call = NoCall
    /\ hpc = "off"
    /\ stdout = <<>>
    /\ executed = <<>>
    /\ hret = NoReturn
    /\ environ = InitialEnviron
    /\ \E setOSEnv1 \in BOOLEAN, setOSEnv2 \in BOOLEAN, data1 \in BranchData, data2 \in BranchData :
          procs = << Goroutine(GoroutineCalls(setOSEnv1, setOSEnv2)[1], data1),
                     Goroutine(GoroutineCalls(setOSEnv1, setOSEnv2)[2], data2) >>

\* What the goroutines leave alone.
soloVars == <<cryptoVars, fetchVars, urlVars, call, hpc, stdout, executed, hret, envelopes,
              fileVars, updateVars>>

GoReturned(properties, err) ==
    [returned |-> TRUE, panicked |-> FALSE, properties |-> properties, err |-> err]

\* The configuration a call arrives at, or the error it returns instead.
Configure(cnf) ==
    IF ~cnf.nilCnf /\ cnf.url # <<>>
    THEN [config |-> ParseURL(TrimPrefix(cnf.url, Scheme)).config,
          err |-> IF ParseURL(TrimPrefix(cnf.url, Scheme)).err # NilError
                  THEN Errorf("failed to parse stacksenv URL: %w",
                              <<ParseURL(TrimPrefix(cnf.url, Scheme)).err>>)
                  ELSE NilError]
    ELSE IF ~cnf.nilCnf /\ cnf.hasConfig
    THEN [config |-> cnf.Config, err |-> ValidateConfig(cnf.Config)]
    ELSE [config |-> ZeroConfig,
          err |-> Errorf("either URL or Config with required properties must be provided", <<>>)]

\* A goroutine enters HandleStacksENV: URL mode or config mode.
GoHandleStacksENV ==
    /\ \E g \in Goroutines :
          /\ procs[g].pc = "call"
          /\ \E r \in {Configure(procs[g].cnf)} :
                procs' = [procs EXCEPT ![g] =
                            IF r.err # NilError
                            THEN [@ EXCEPT !.pc = "done", !.ret = GoReturned(NilSlice, r.err)]
                            ELSE [@ EXCEPT !.pc = "fetch", !.config = r.config]]
    /\ UNCHANGED <<soloVars, environ>>

\* Its GetContextDecryptedData, with the client and the crypto service the
\* call made for itself: the request fails, or the server answers with the
\* data of the branch.
GoGetContextDecryptedData ==
    /\ \E g \in Goroutines :
          /\ procs[g].pc = "fetch"
          /\ \E r \in { HandleResponse(procs[g].config, StatusOK, BodyOf(procs[g].data)),
                        [result |-> NilSlice,
                         err |-> Errorf("failed to send CLI request: %w",
                                        <<Errorf("failed to send GET request: %w", <<>>)>>),
                         calls |-> <<>>] } :
                procs' = [procs EXCEPT ![g] =
                            IF r.err # NilError
                            THEN [@ EXCEPT !.pc = "done",
                                           !.ret = GoReturned(NilSlice,
                                                       Errorf("failed to fetch context data: %w",
                                                              <<r.err>>))]
                            ELSE [@ EXCEPT !.pc = IF procs[g].cnf.SetOSEnv THEN "setenv" ELSE "return",
                                           !.properties = r.result]]
    /\ UNCHANGED <<soloVars, environ>>

\* One round of its loop over the properties: os.Setenv on the environment
\* of the process.  A value that is no string panics, and a panic no one
\* recovers ends the process, the other goroutine with it.
GoSetenv ==
    /\ \E g \in Goroutines :
          /\ procs[g].pc = "setenv"
          /\ procs[g].i <= Len(procs[g].properties.items)
          /\ IF procs[g].properties.items[procs[g].i].Value.kind # "string"
             THEN /\ procs' = [h \in 1..Len(procs) |-> [procs[h] EXCEPT !.pc = "dead"]]
                  /\ UNCHANGED environ
             ELSE /\ environ' = Setenv(environ, procs[g].properties.items[procs[g].i].Property,
                                       procs[g].properties.items[procs[g].i].Value.s)
                  /\ procs' = [procs EXCEPT ![g].i = @ + 1]
    /\ UNCHANGED soloVars

\* It returns the properties.
GoReturn ==
    /\ \E g \in Goroutines :
          /\ \/ procs[g].pc = "return"
             \/ procs[g].pc = "setenv" /\ procs[g].i > Len(procs[g].properties.items)
          /\ procs' = [procs EXCEPT ![g] =
                          [@ EXCEPT !.pc = "done", !.ret = GoReturned(procs[g].properties, NilError)]]
    /\ UNCHANGED <<soloVars, environ>>

ConcurrentNext ==
    \/ GoHandleStacksENV
    \/ GoGetContextDecryptedData
    \/ GoSetenv
    \/ GoReturn

SpecConcurrent == ConcurrentInit /\ [][ConcurrentNext]_vars

(***************************************************************************)
(* The claims.                                                             *)
(***************************************************************************)
\* The payload in the data field of the response being handled.
Payload == wire.body.data.payload

\* The message of the error returned when no candidate opened the payload.
NegotiationMessage == "failed to decrypt data: tried all common encryption key/AAD combinations"

\* The six (key, aad) pairs in the order the specification lists them.
ExpectedCandidates ==
    LET a == config.Secret
        b == config.SecretKey
    IN  << [secret |-> b, aad |-> a \o <<"|">> \o b],
           [secret |-> a, aad |-> b],
           [secret |-> b, aad |-> a],
           [secret |-> a, aad |-> a \o <<"|">> \o b],
           [secret |-> b, aad |-> <<>>],
           [secret |-> a, aad |-> <<>>] >>

\* C1: the Decrypt calls of one fetch are, in order, a prefix of the six
\* candidates (B, A|B), (A, B), (B, A), (A, A|B), (B, ""), (A, ""); only the
\* last call made can have succeeded, and when it has, the fetch is over and
\* has returned the records of that call with a nil error.
C1_NegotiationOrder ==
    /\ Len(calls) <= 6
    /\ \A i \in 1..Len(calls) :
          /\ calls[i].secret = ExpectedCandidates[i].secret
          /\ calls[i].aad = ExpectedCandidates[i].aad
          /\ i < Len(calls) => calls[i].err # NilError
    /\ (calls # <<>> /\ calls[Len(calls)].err = NilError) =>
          /\ pc = "done"
          /\ ret = [result |-> Decrypt(Payload.str, calls[Len(calls)].secret,
                                       calls[Len(calls)].aad).result,
                    err |-> NilError]

C1_Witness == pc = "done" /\ Len(calls) = 3 /\ calls[3].err = NilError

\* C2: with Secret = "a" and SecretKey = "b", a payload sealed with key b and
\* AAD "a|b" is opened by the first Decrypt call, and a payload sealed with
\* key a and the empty AAD fails five calls and is opened by the sixth; both
\* fetches return the records that were sealed.
C2_FirstAndSixthCandidate ==
    ( /\ config.Secret = <<"a">> /\ config.SecretKey = <<"b">>
      /\ pc = "done" /\ calls # <<>>
      /\ Payload.kind = "records" /\ ~Payload.tampered ) =>
        /\ (Payload.secret = <<"b">> /\ Payload.aad = <<"a", "|", "b">>) =>
              /\ Len(calls) = 1
              /\ ret = [result |-> Payload.data, err |-> NilError]
        /\ (Payload.secret = <<"a">> /\ Payload.aad = <<>>) =>
              /\ Len(calls) = 6
              /\ \A i \in 1..5 : calls[i].err # NilError
              /\ calls[6].err = NilError
              /\ ret = [result |-> Payload.data, err |-> NilError]

C2_Witness ==
    /\ config.Secret = <<"a">> /\ config.SecretKey = <<"b">>
    /\ pc = "done" /\ Len(calls) = 6 /\ calls[6].err = NilError
    /\ Payload.secret = <<"a">> /\ Payload.aad = <<>>
    /\ Len(Payload.data.items) = 2
    /\ ret.result = Payload.data

RoundTripHolds ==
    /\ cenv.made = "Encrypt" => cenv.err = NilError
    /\ (cenv.made = "Encrypt" /\ cdec.called /\ cdec.secret = cin.secret /\ cdec.aad = cin.aad) =>
          /\ cdec.err = NilError
          /\ cdec.result = cin.data

\* Values json.Unmarshal itself produces: strings of valid UTF-8, float64
\* numbers, booleans and nil, under property names of valid UTF-8.
JSONNative(data) ==
    \A i \in 1..Len(data.items) :
        /\ data.items[i].Value.kind \in {"string", "float64", "bool", "nil"}
        /\ \A j \in 1..Len(data.items[i].Value.s) : data.items[i].Value.s[j] # InvalidByte
        /\ \A j \in 1..Len(data.items[i].Property) : data.items[i].Property[j] # InvalidByte

\* C4 as stated: for every list of records, every non-empty secret and
\* every AAD, Encrypt succeeds and Decrypt returns the same records.
C4_RoundTripEveryRecordList == cin.secret # <<>> => RoundTripHolds

\* C4, amended: for every list of records whose values are strings of valid
\* UTF-8, float64 numbers, booleans or nil and whose property names are valid
\* UTF-8, every non-empty secret and every AAD, Encrypt succeeds and Decrypt
\* with the same secret and AAD returns the same records in the same order.
C4_RoundTripJSONNative == (cin.secret # <<>> /\ JSONNative(cin.data)) => RoundTripHolds

C4_Witness ==
    /\ cenv.made = "Encrypt" /\ cdec.called /\ cdec.err = NilError
    /\ cin.aad # <<>>
    /\ Len(cin.data.items) = 2 /\ cin.data.items[1] # cin.data.items[2]
    /\ cdec.result = cin.data

\* C5: a payload sealed with secret K and AAD X is not opened by Decrypt
\* with K and an AAD other than X: Decrypt returns an error and the nil list.
C5_AADBinding ==
    ( /\ cenv.made = "Encrypt" /\ cenv.err = NilError
      /\ cdec.called /\ cdec.secret = cin.secret /\ cdec.aad # cin.aad ) =>
        /\ cdec.err # NilError
        /\ cdec.result = NilSlice

C5_Witness ==
    /\ cenv.made = "Encrypt" /\ cenv.err = NilError
    /\ cdec.called /\ cdec.secret = cin.secret
    /\ cin.aad = <<"a">> /\ cdec.aad = <<>>
    /\ cdec.err.format = "decrypt/auth failed: %w"

\* C6: once one byte of the ciphertext or tag of a sealed payload has
\* changed, Decrypt fails on it for every secret and every AAD, every
\* candidate of the fetch fails, and a fetch that began to negotiate ends
\* after six calls; the fetch returns an error and no records.
C6_TamperDetection ==
    Payload.tampered =>
        /\ \A secret \in Secrets \cup WireSecrets, aad \in AADs \cup WireAADs :
              /\ Decrypt(Payload.str, secret, aad).err # NilError
              /\ Decrypt(Payload.str, secret, aad).result = NilSlice
        /\ \A i \in 1..Len(calls) : calls[i].err # NilError
        /\ pc = "done" => (ret.err # NilError /\ ret.result = NilSlice)
        /\ (pc = "done" /\ calls # <<>>) => (Len(calls) = 6 /\ ret.err.format = NegotiationMessage)

C6_Witness ==
    /\ Payload.tampered /\ Payload.kind = "records"
    /\ Payload.secret = config.SecretKey
    /\ Payload.aad = config.Secret \o <<"|">> \o config.SecretKey
    /\ pc = "done" /\ Len(calls) = 6

\* C7: whenever Decrypt returns an error it returns the nil list with it, and
\* it does return an error for the empty payload, the empty secret, invalid
\* base64, a payload shorter than the nonce, a wrong secret or AAD, and a
\* plaintext that does not decode into records.
C7_DecryptFailsClosed ==
    cdec.called =>
        /\ cdec.err # NilError => cdec.result = NilSlice
        /\ ( \/ cenv.str = EmptyString
             \/ cdec.secret = <<>>
             \/ cenv.made \in {"not base64", "short", "nonce only", "not json", "type error"}
             \/ cdec.secret # cin.secret
             \/ cdec.aad # cin.aad ) => cdec.err # NilError

C7_Witness ==
    /\ cdec.called /\ cenv.made = "type error"
    /\ cdec.secret = cin.secret /\ cdec.aad = cin.aad
    /\ cdec.err.format = "json unmarshal failed: %w"
    /\ cdec.result = NilSlice

\* C8: when a candidate authenticated the payload and its plaintext did not
\* decode into records, the fetch returns an error other than the one it
\* returns when no candidate authenticates.
C8_SerializationErrorReported ==
    (pc = "done" /\ \E i \in 1..Len(calls) : calls[i].err.format = "json unmarshal failed: %w") =>
        /\ ret.err # NilError
        /\ ret.err.format # NegotiationMessage

\* C9: status 200, an empty error field and in data a payload of records R
\* sealed with key SecretKey and AAD Secret|SecretKey: the fetch returns R
\* and a nil error.
C9_FetchReturnsRecords ==
    ( /\ pc = "done" /\ wire.status = 200
      /\ wire.body.json /\ wire.body.error = [type |-> "string", s |-> <<>>]
      /\ wire.body.data.type = "string"
      /\ Payload.kind = "records" /\ ~Payload.tampered
      /\ Payload.secret = config.SecretKey
      /\ Payload.aad = config.Secret \o <<"|">> \o config.SecretKey ) =>
        ret = [result |-> Payload.data, err |-> NilError]

C9_Witness ==
    /\ pc = "done" /\ wire.status = 200
    /\ wire.body.json /\ wire.body.error = [type |-> "string", s |-> <<>>]
    /\ Payload.kind = "records" /\ ~Payload.tampered
    /\ Payload.secret = config.SecretKey
    /\ Payload.aad = config.Secret \o <<"|">> \o config.SecretKey
    /\ Len(Payload.data.items) = 2
    /\ ret.result = Payload.data

\* C10: after a response whose status is not a success status no Decrypt
\* call is made, and the fetch returns no records and an error holding the
\* status code and the response body.
C10_NonSuccessStatus ==
    (wire.status # 0 /\ wire.status \notin 200..299) =>
        /\ calls = <<>>
        /\ pc \in {"status", "done"}
        /\ pc = "done" =>
              /\ ret.result = NilSlice
              /\ ret.err.format = "HTTP error %d: %s"
              /\ ret.err.operands = <<wire.status, wire.body>>

C10_Witness ==
    /\ pc = "done" /\ wire.status = 404
    /\ wire.body.json /\ wire.body.data.type = "string"
    /\ Payload.kind = "records"
    /\ Payload.secret = config.SecretKey
    /\ Payload.aad = config.Secret \o <<"|">> \o config.SecretKey
    /\ calls = <<>>

\* A fetch is over whose response had status 200 and a JSON object as body.
DoneWithBody == pc = "done" /\ wire.status = StatusOK /\ wire.body.json

\* The error field of the body is a non-empty string.
ErrorPopulated == wire.body.error.type = "string" /\ wire.body.error.s # <<>>

\* The data field of the body is a non-empty string.
DataPresent == wire.body.data.type = "string" /\ Payload.str # EmptyString

C12_PopulatedErrorField ==
    /\ (DoneWithBody /\ ErrorPopulated) =>
          /\ ret = [result |-> NilSlice, err |-> Errorf("server error: %s", <<wire.body.error.s>>)]
          /\ calls = <<>>
    /\ (DoneWithBody /\ wire.body.error.type = "string" /\ wire.body.error.s = <<>>) =>
          /\ ret.err.format # "server error: %s"
          /\ DataPresent => calls # <<>>

C12_Witness ==
    /\ DoneWithBody /\ ErrorPopulated
    /\ DataPresent /\ Payload.kind = "records" /\ ~Payload.tampered
    /\ Payload.secret = config.SecretKey
    /\ ret.err.format = "server error: %s"
    /\ calls = <<>>

\* C13: when the body of a 200 response has no populated error field and
\* its data field is absent, not a string or the empty string, the fetch
\* returns "no encrypted data found in response" with no records and calls
\* Decrypt not once.
C13_MissingPayload ==
    (DoneWithBody /\ ~ErrorPopulated /\ ~DataPresent) =>
        /\ ret = [result |-> NilSlice,
                  err |-> Errorf("no encrypted data found in response", <<>>)]
        /\ calls = <<>>

C13_Witness ==
    /\ DoneWithBody /\ ~ErrorPopulated
    /\ wire.body.data.type = "string" /\ Payload.str = EmptyString
    /\ ret.err.format = "no encrypted data found in response"

\* C15: in one GetContextDecryptedData call no step follows the return; at
\* most one request is ever sent, and it is sent first; a Decrypt call is
\* made only in the negotiation, after the one request was sent and its
\* response was found to have status 200 and a JSON body with a payload;
\* each step makes at most one Decrypt call, the sixth is the last; and a
\* step that sets an error returns.
C15_OneRequestThenDecrypts ==
    [][ /\ pc # "done"
        /\ Len(requests') <= 1
        /\ requests' # requests => (pc = "start" /\ calls = <<>>)
        /\ calls' # calls =>
              /\ pc = "negotiate"
              /\ requests' = requests /\ Len(requests) = 1
              /\ wire' = wire
              /\ wire.status = StatusOK /\ wire.body.json /\ ~ErrorPopulated /\ DataPresent
              /\ Len(calls') = Len(calls) + 1
              /\ Len(calls') <= NumCandidates
              /\ SubSeq(calls', 1, Len(calls)) = calls
        /\ ret'.err # NilError => pc' = "done"
      ]_vars

C15_Witness ==
    /\ pc = "done" /\ Len(requests) = 1 /\ Len(calls) = NumCandidates
    /\ ret.err # NilError

\* How a server reads the query of a request: url.ParseQuery splits at '&',
\* cuts each pair at the first '=' and unescapes key and value.
EscapedChars == {"#", "&", "/", ":", "=", "?", "@", "|"}

RECURSIVE QueryUnescape(_)
QueryUnescape(s) ==
    IF s = <<>> THEN <<>>
    ELSE IF s[1] = "+" THEN <<" ">> \o QueryUnescape(Tail(s))
    ELSE IF s[1] = "%" /\ Len(s) >= 3
    THEN <<CHOOSE c \in EscapedChars : PercentCode(c) = SubSeq(s, 1, 3)>>
             \o QueryUnescape(SubSeq(s, 4, Len(s)))
    ELSE <<s[1]>> \o QueryUnescape(Tail(s))

ReadQuery(rawQuery) ==
    LET pairs == Split(rawQuery, "&")
    IN  [i \in 1..Len(pairs) |->
            [key |-> QueryUnescape(Cut(pairs[i], "=").before),
             value |-> QueryUnescape(Cut(pairs[i], "=").after)]]

\* The request the specification describes for a configuration.
RequestAsSpecified(r, cnf) ==
    /\ r.method = "GET"
    /\ r.scheme = (IF cnf.DisableHTTPS THEN <<"h", "t", "t", "p">>
                   ELSE <<"h", "t", "t", "p", "s">>)
    /\ r.host = cnf.ServerURL
    /\ r.path = <<"/", "c", "l", "i">>
    /\ Len(ReadQuery(r.rawQuery)) = 2
    /\ { ReadQuery(r.rawQuery)[i] : i \in 1..2 }
           = { [key |-> <<"i", "d">>, value |-> cnf.ID],
               [key |-> <<"b", "r", "a", "n", "c", "h">>, value |-> cnf.Branch] }

\* C14 as stated: every request SendCLIRequest sends is a GET with scheme
\* http when DisableHTTPS is set and https otherwise, host Config.ServerURL,
\* path /cli and exactly the parameters id = Config.ID and
\* branch = Config.Branch.
C14_RequestURL ==
    \A i \in 1..Len(requests) : RequestAsSpecified(requests[i], config)

\* The number of times the character c occurs in s.
CountOf(s, c) == Cardinality({i \in 1..Len(s) : s[i] = c})

\* The parts of an identifier with one '@': before it, after it, and of the
\* latter what follows the first '/'.
LeftPart == Cut(urlStr, "@").before
RightPart == Cut(urlStr, "@").after
Remainder == Cut(RightPart, "/").after

\* Three fields between two ':', none of them empty.
WellFormedCredentials(left) ==
    /\ CountOf(left, ":") = 2
    /\ left[1] # ":" /\ left[Len(left)] # ":"
    /\ \A i \in 1..(Len(left) - 1) : ~(left[i] = ":" /\ left[i + 1] = ":")

\* One '/', something before it, and after it something that does not begin
\* with '?'.
WellFormedServerPart(right) ==
    /\ CountOf(right, "/") = 1
    /\ right[1] # "/"
    /\ Cut(right, "/").after # <<>>
    /\ Cut(right, "/").after[1] # "?"

\* The identifier has a query string, and its '&'-separated pairs.
HasQuery ==
    /\ CountOf(urlStr, "@") = 1
    /\ CountOf(RightPart, "/") = 1
    /\ CountOf(Remainder, "?") = 1
QueryPairs == Split(Cut(Remainder, "?").after, "&")
WellFormedPair(pair) == CountOf(pair, "=") = 1

\* C16: ParseURL, of either package, called with an identifier that does not
\* hold exactly one '@', returns an error and the zero Config, and no fetch
\* is started with it.
C16_ExactlyOneAt ==
    (parsed.parser # "none" /\ CountOf(urlStr, "@") # 1) =>
        /\ ~parsed.panicked
        /\ parsed.err # NilError
        /\ parsed.config = ZeroConfig
        /\ pc = "off" /\ requests = <<>>

C16_Witness ==
    /\ parsed.parser = "stacksenv" /\ CountOf(urlStr, "@") = 2
    /\ parsed.err.format = "invalid stacksenv URL format: missing '@' separator. Expected format: 'stacksenv://ID:SECRET:SECRET_KEY@SERVER_URL/BRANCH', but got: %s"

\* C17 as stated: ParseURL, of either package, called with an identifier
\* whose part before the '@' is not three non-empty fields between two ':',
\* returns an error.
C17_ThreeNonEmptyFields ==
    ( /\ parsed.parser # "none" /\ CountOf(urlStr, "@") = 1
      /\ ~WellFormedCredentials(LeftPart) ) =>
        (~parsed.panicked /\ parsed.err # NilError)

\* C18 as stated: ParseURL, of either package, called with an identifier
\* whose part after the '@' is not a non-empty server address, one '/' and a
\* non-empty branch, returns an error; it does not panic.
C18_ServerAndBranch ==
    ( /\ parsed.parser # "none" /\ CountOf(urlStr, "@") = 1
      /\ ~WellFormedServerPart(RightPart) ) =>
        (~parsed.panicked /\ parsed.err # NilError)

\* The identifier is ID:A:B@HOST/BRANCH, with or without a query of pairs
\* that hold one '=' each.
WellFormedIdentifier ==
    /\ CountOf(urlStr, "@") = 1
    /\ WellFormedCredentials(LeftPart)
    /\ WellFormedServerPart(RightPart)
    /\ CountOf(Remainder, "?") <= 1
    /\ HasQuery => \A i \in 1..Len(QueryPairs) : WellFormedPair(QueryPairs[i])

\* The Config the specification gives for a well-formed identifier.
ConfigAsSpecified ==
    [ID |-> Split(LeftPart, ":")[1],
     Secret |-> Split(LeftPart, ":")[2],
     SecretKey |-> Split(LeftPart, ":")[3],
     ServerURL |-> Cut(RightPart, "/").before,
     Branch |-> Cut(Remainder, "?").before,
     DisableHTTPS |-> /\ HasQuery
                      /\ \E i \in 1..Len(QueryPairs) :
                            QueryPairs[i] = DisableHTTPSKey \o <<"=">> \o TrueValue]

\* C19 as stated: ParseURL, of either package, called with a well-formed
\* identifier ID:A:B@HOST/BRANCH[?query], returns no error and the Config
\* {ID, A, B, HOST, BRANCH}, with DisableHTTPS set exactly when the query
\* has a pair disable_https=true.
C19_WellFormedIdentifier ==
    (parsed.parser # "none" /\ WellFormedIdentifier) =>
        /\ ~parsed.panicked
        /\ parsed.err = NilError
        /\ parsed.config = ConfigAsSpecified

\* The identifier without the well-formed pairs of its query whose key is
\* not disable_https (and without the '?' when no pair is left).
KnownPairs ==
    SelectSeq(QueryPairs, LAMBDA pair : ~WellFormedPair(pair)
                                        \/ Cut(pair, "=").before = DisableHTTPSKey)
WithoutUnknownPairs ==
    LeftPart \o <<"@">> \o Cut(RightPart, "/").before \o <<"/">> \o Cut(Remainder, "?").before
        \o (IF KnownPairs = <<>> THEN <<>> ELSE <<"?">> \o JoinOptions(KnownPairs))

\* What the parser that was called returns for another identifier.
SameParser(str) ==
    LET r == IF parsed.parser = "stacksenv" THEN ParseURL(str) ELSE StackenvParseURL(str)
    IN  [parser |-> parsed.parser, config |-> r.config, err |-> r.err, panicked |-> r.panicked]

NonceIn(e) == SubSeq(e.out.bytes, 1, NonceSize)

\* The envelopes that were made, by their place in the sequence of calls.
Made == {i \in 1..Len(envelopes) : envelopes[i].err = NilError}

\* Every envelope begins with the 12 bytes its call read from rand.Reader
\* and is sealed under them.
NonceIsWhatWasRead ==
    \A i \in Made :
        /\ Len(envelopes[i].out.bytes) >= NonceSize + TagSize
        /\ Len(NonceIn(envelopes[i])) = NonceSize
        /\ NonceIn(envelopes[i]) = envelopes[i].read
        /\ \A k \in (NonceSize + 1)..Len(envelopes[i].out.bytes) :
               envelopes[i].out.bytes[k].seal[2] = envelopes[i].read

RECURSIVE Atoi(_)
Atoi(s) ==
    IF s = <<>> THEN 0
    ELSE 10 * Atoi(SubSeq(s, 1, Len(s) - 1))
         + (CHOOSE d \in 0..9 : DigitOf(d) = s[Len(s)])

\* The components of a dotted numeric version, as numbers.
ComponentsOf(v) == [i \in 1..Len(Split(v, ".")) |-> Atoi(Split(v, ".")[i])]

\* -1, 0 or 1 as version v1 is older than, equal to or newer than v2: the
\* first component that differs decides, by its number.
RECURSIVE NumericOrder(_, _)
NumericOrder(c1, c2) ==
    IF c1 = <<>> \/ c2 = <<>> THEN 0
    ELSE IF Head(c1) < Head(c2) THEN -1
    ELSE IF Head(c1) > Head(c2) THEN 1
    ELSE NumericOrder(Tail(c1), Tail(c2))

VersionOrder ==
    NumericOrder(ComponentsOf(versions.current), ComponentsOf(TrimPrefix(versions.tag, <<"v">>)))

\* C30: compareVersions(v1, v2) is -1, 0 or 1 as v1 is older than, equal to
\* or newer than v2 in component-wise numeric order, so performUpdate
\* installs nothing exactly when the running version is the latest or
\* newer, and goes on to install when it is older.
C30_CompareVersions ==
    (update.compared /\ versions.current # Untracked) =>
        /\ update.cmp = VersionOrder
        /\ update.cmd = "update" => (update.outcome = "nothing installed" <=> VersionOrder >= 0)
        /\ update.cmd = "check" => (update.outcome = "update available" <=> VersionOrder < 0)

\* What the last bootstrap call returned, in the state after it.
LastBootstrap == cfgret'[Len(cfgret')]

\* The two configuration files keep what they hold when they are there.
ExistingFilesKept ==
    /\ fs.local # "none" => fs'.local = fs.local
    /\ fs.global # "none" => fs'.global = fs.global

\* C29 as stated: over any sequence of createLocalConfig and
\* ensureGlobalConfigExists calls a file that already exists keeps its
\* content, createLocalConfig returning an error and
\* ensureGlobalConfigExists returning nil; a file is written only when it
\* did not exist.
C29_ExistingFileNeverOverwritten ==
    [][ cfgret' # cfgret =>
          /\ ExistingFilesKept
          /\ (LastBootstrap.op = "createLocalConfig" /\ fs.local # "none") =>
                 LastBootstrap.err # NilError
          /\ (LastBootstrap.op = "ensureGlobalConfigExists" /\ fs.global # "none") =>
                 LastBootstrap.err = NilError ]_vars

\* C29 as amended: a file that already exists keeps its content; when
\* os.Stat finds it, createLocalConfig returns the "already exists" error
\* and ensureGlobalConfigExists returns nil; when os.Stat cannot reach it
\* (its directory may not be searched), both return an error; a file is
\* written only when it did not exist.
C29_ExistingFileKept ==
    [][ cfgret' # cfgret =>
          /\ ExistingFilesKept
          /\ (LastBootstrap.op = "createLocalConfig" /\ fs.local # "none") =>
                 /\ LastBootstrap.err # NilError
                 /\ LastBootstrap.found =>
                        LastBootstrap.err.format = "local config file already exists: %s"
          /\ (LastBootstrap.op = "ensureGlobalConfigExists" /\ fs.global # "none") =>
                 (LastBootstrap.err = NilError <=> LastBootstrap.found) ]_vars

C29_Witness ==
    /\ Len(cfgret) = 2
    /\ cfgret[1].op = "createLocalConfig" /\ cfgret[1].found
    /\ cfgret[2].op = "ensureGlobalConfigExists" /\ cfgret[2].found
    /\ fs.local = "edited" /\ fs.global = "edited" /\ fs.cwdIsHome

(***************************************************************************)
(* C21.  Decoding strips an optional "stacksenv://" prefix: for every      *)
(* identifier s, decoding "stacksenv://" followed by s gives what decoding *)
(* s gives, the same Config or the same kind of error, for the public      *)
(* ParseURL and for the handlers that call it.                             *)
(***************************************************************************)
\* What a function decodes when it is handed s: the public ParseURL parses
\* s, a handler parses what it is handed unless that is empty.
Decoders == {"ParseURL", "HandleStacksenvURLCLI", "HandleStacksENV"}
Undecoded == [decoded |-> FALSE, config |-> ZeroConfig, kind |-> ""]
DecodingOf(fn, s) ==
    IF fn = "ParseURL"
    THEN [decoded |-> TRUE, config |-> ParseURL(s).config, kind |-> ParseURL(s).err.format]
    ELSE IF s = <<>> \/ (fn = "HandleStacksenvURLCLI" /\ TrimPrefix(s, Scheme) = <<>>)
    THEN Undecoded
    ELSE [decoded |-> TRUE, config |-> ParseURL(TrimPrefix(s, Scheme)).config,
          kind |-> ParseURL(TrimPrefix(s, Scheme)).err.format]

\* What the call that was made decoded.
Decoding ==
    IF parsed.parser = "none" THEN Undecoded
    ELSE [decoded |-> TRUE, config |-> parsed.config, kind |-> parsed.err.format]

\* A call with a prefixed identifier has decoded what the same call decodes
\* without the prefix.
C21_PrefixIsStripped ==
    (/\ call.fn \in Decoders
     /\ ~call.nilCnf
     /\ hpc # "call"
     /\ HasPrefix(call.url, Scheme))
        => Decoding = DecodingOf(call.fn, TrimPrefix(call.url, Scheme))

(***************************************************************************)
(* C22.  No request is sent and Decrypt is never called with a Config in   *)
(* which ID, Secret, SecretKey, ServerURL or Branch is empty:              *)
(* HandleStacksENV and GetContextDecryptedData report a configuration      *)
(* error for such a Config, and when neither a URL nor a Config is given,  *)
(* not an error of the network or of the decryption.                       *)
(***************************************************************************)
Complete(cfg) ==
    /\ cfg.ID # <<>>
    /\ cfg.Secret # <<>>
    /\ cfg.SecretKey # <<>>
    /\ cfg.ServerURL # <<>>
    /\ cfg.Branch # <<>>

ConfigurationErrors ==
    { "required property 'ID' is missing", "required property 'Secret' is missing",
      "required property 'SecretKey' is missing", "required property 'ServerURL' is missing",
      "required property 'Branch' is missing",
      "either URL or Config with required properties must be provided" }

\* The call was handed no usable configuration.
IncompleteGiven ==
    \/ call.fn = "GetContextDecryptedData" /\ ~Complete(call.Config)
    \/ /\ call.fn = "HandleStacksENV"
       /\ \/ call.nilCnf
          \/ call.url = <<>> /\ (~call.hasConfig \/ ~Complete(call.Config))

C22_CompleteConfigBeforeAnyOperation ==
    /\ (requests # <<>> \/ calls # <<>>) => Complete(config)
    /\ (hpc = "done" /\ IncompleteGiven)
          => hret.returned /\ hret.err.format \in ConfigurationErrors

(***************************************************************************)
(* C23.  No secret appears in an error or in printed output: no decrypted  *)
(* property value and neither Secret nor SecretKey is contained in any     *)
(* error returned or any line printed by ParseURL, GetContextDecryptedData *)
(* or HandleStacksenvURLCLI, whether they succeed or fail.                 *)
(***************************************************************************)
\* The characters of the secrets: Secret, SecretKey and the string values
\* of the properties.  No other text of the calls is made of them.
SecretChars == {"S", "K", "y", "w"}
Leaks(str) == \E i \in 1..Len(str) : str[i] \in SecretChars

\* Errors that carry text of the caller or the server in their operands,
\* and errors that wrap another.
EchoErrors ==
    { "invalid stacksenv URL format: missing '@' separator. Expected format: 'stacksenv://ID:SECRET:SECRET_KEY@SERVER_URL/BRANCH', but got: %s",
      "invalid credentials format in URL: expected 'ID:SECRET:SECRET_KEY' (three colon-separated values), but got: %s. Please verify your credentials are correctly formatted",
      "invalid server URL format: expected 'SERVER_URL/BRANCH' (server and branch separated by '/'), but got: %s",
      "invalid query parameter format: '%s'. Expected format: 'KEY=VALUE' (e.g., 'disable_https=true')",
      "invalid Server URL: %s", "invalid ID and Key or Secret Key: %s", "invalid URL: %s",
      "server error: %s", "failed to execute command '%s %s': %w" }
WrapErrors == { "failed to parse stacksenv URL: %w", "failed to fetch context data: %w" }

TextLeaks(e) ==
    /\ e.format \in EchoErrors
    /\ \E i \in 1..Len(e.operands) : Leaks(e.operands[i])
ErrorLeaks(e) == IF e.format \in WrapErrors THEN TextLeaks(e.operands[1]) ELSE TextLeaks(e)
LineLeaks(line) == \E i \in 1..Len(line.operands) : Leaks(line.operands[i])

C23_NoSecretInErrorsOrOutput ==
    call.fn \in {"ParseURL", "GetContextDecryptedData", "HandleStacksenvURLCLI",
                 "stackenv.HandleStacksenvURLCLI"}
        => /\ ~ErrorLeaks(hret.err)
           /\ \A i \in 1..Len(stdout) : ~LineLeaks(stdout[i])

(***************************************************************************)
(* C24.  When Handler.HandleStacksenvURLCLI runs a command after a         *)
(* successful fetch, the environment list handed to the executor holds one *)
(* NAME=VALUE entry per fetched record, in the order of the records, with  *)
(* duplicate names kept; a string value is copied as it is and any other   *)
(* value is written out as text.  The executor puts the list after the     *)
(* environment of the process.                                             *)
(***************************************************************************)
\* The text of a value: the string itself, the number in decimal, true or
\* false, and <nil> for null.
TextOf(value) ==
    IF value.kind = "string" THEN value.s
    ELSE IF value.kind = "nil" THEN <<"<", "n", "i", "l", ">">>
    ELSE IF value.kind = "bool"
    THEN (IF value = GoBool(TRUE) THEN <<"t", "r", "u", "e">> ELSE <<"f", "a", "l", "s", "e">>)
    ELSE Itoa(value.n)

RanAfterFetch ==
    /\ call.fn = "HandleStacksenvURLCLI"
    /\ pc = "done"
    /\ ret.err = NilError
    /\ executed # <<>>

C24_EnvironmentList ==
    RanAfterFetch =>
        /\ Len(executed[1].env) = Len(ret.result.items)
        /\ \A i \in 1..Len(ret.result.items) :
              executed[1].env[i] = ret.result.items[i].Property \o <<"=">>
                                       \o TextOf(ret.result.items[i].Value)
        /\ Len(ret.result.items) > 0
              => executed[1].Env = Environ(environ) \o executed[1].env

\* A command was run with two records of one name and different values.
C24_Witness ==
    /\ RanAfterFetch
    /\ Len(ret.result.items) = 2
    /\ ret.result.items[1].Property = ret.result.items[2].Property
    /\ ret.result.items[1].Value # ret.result.items[2].Value
    /\ Len(executed[1].env) = 2

(***************************************************************************)
(* C25.  After a successful fetch HandleStacksENV returns the whole record *)
(* list and a nil error.  With SetOSEnv it has put every property into the *)
(* environment of the process, whatever the values of the records are,     *)
(* strings or not; without SetOSEnv the environment is as it was.          *)
(***************************************************************************)
FetchedForEnv ==
    /\ call.fn = "HandleStacksENV"
    /\ hpc = "done"
    /\ pc = "done"
    /\ ret.err = NilError

\* The variable of the i-th record holds its value, unless a later record
\* of the same name replaced it.
IsSet(items, i) ==
    (\A j \in (i + 1)..Len(items) : items[j].Property # items[i].Property)
        => \E k \in 1..Len(environ) :
              environ[k] = [name |-> items[i].Property, value |-> TextOf(items[i].Value)]

C25_SetOSEnv ==
    FetchedForEnv =>
        /\ hret.returned
        /\ hret.err = NilError
        /\ hret.properties = ret.result
        /\ IF call.SetOSEnv
           THEN \A i \in 1..Len(ret.result.items) : IsSet(ret.result.items, i)
           ELSE environ = InitialEnviron

(***************************************************************************)
(* C28.  In Handler.HandleStacksenvURLCLI the executor is invoked at most  *)
(* once, and with a URL only after parsing and fetching both succeeded: an *)
(* error of ParseURL or GetContextDecryptedData is returned and nothing is *)
(* executed.  Without a URL nothing is parsed or fetched and the command   *)
(* runs with no fetched variables; without args nothing is executed.       *)
(***************************************************************************)
ParsedAndFetched ==
    /\ parsed.parser = "stacksenv"
    /\ parsed.err = NilError
    /\ pc = "done"
    /\ ret.err = NilError

ParseOrFetchFailed ==
    \/ parsed.parser = "stacksenv" /\ parsed.err # NilError
    \/ pc = "done" /\ ret.err # NilError

\* The handler has finished and the command ran once, with no variables.
RanWithoutVariables ==
    hpc = "done" =>
        /\ hret.returned
        /\ call.args # <<>> => (Len(executed) = 1 /\ executed[1].env = <<>>)

NothingParsedOrFetched ==
    /\ parsed.parser = "none"
    /\ pc = "off"
    /\ requests = <<>>

\* The order of the steps, where url is the URL that counts as given.
ExecutorProtocol(url) ==
    call.fn = "HandleStacksenvURLCLI" =>
        /\ Len(executed) <= 1
        /\ (url # <<>> /\ executed # <<>>) => ParsedAndFetched
        /\ ParseOrFetchFailed
              => /\ executed = <<>>
                 /\ hpc = "done" => (hret.returned /\ hret.err # NilError)
        /\ url = <<>> => (NothingParsedOrFetched /\ RanWithoutVariables)
        /\ call.args = <<>> => executed = <<>>

\* The claim as stated: the URL as it was handed over.
C28_ExecutorOnlyAfterParseAndFetch == ExecutorProtocol(call.url)

\* The claim as the code has it: a URL that is nothing but the prefix
\* "stacksenv://" counts as no URL.
C28_ExecutorOnlyAfterParseAndFetchOfTrimmedURL == ExecutorProtocol(TrimPrefix(call.url, Scheme))

\* The command ran for a URL that is the prefix alone.
C28_Witness ==
    /\ call.fn = "HandleStacksenvURLCLI"
    /\ call.url = Scheme
    /\ Len(executed) = 1
    /\ parsed.parser = "none"

(***************************************************************************)
(* C26.  Two fetches that run at once with different configurations share  *)
(* no state they change: however their steps interleave, each call ends as *)
(* it would have ended alone, and what one call wrote, the variables it    *)
(* set under SetOSEnv included, is not changed by the other.               *)
(***************************************************************************)
\* Alone, the call of g panics in its own loop and not otherwise.
PanicsAlone(g) ==
    /\ procs[g].cnf.SetOSEnv
    /\ SetenvAll(<<>>, procs[g].properties.items, 1).panicked

\* The variable of the i-th property g set holds the value g gave it, unless
\* g itself set it again.
KeepsItsValue(g, i) ==
    (\A j \in (i + 1)..Len(procs[g].properties.items) :
        procs[g].properties.items[j].Property # procs[g].properties.items[i].Property)
        => \E k \in 1..Len(environ) :
              environ[k] = [name |-> procs[g].properties.items[i].Property,
                            value |-> procs[g].properties.items[i].Value.s]

C26_NoSharedMutableState ==
    \A g \in Goroutines :
        /\ procs[g].pc = "dead" => PanicsAlone(g)
        /\ (procs[g].pc = "done" /\ procs[g].ret.err = NilError)
              => /\ procs[g].ret.properties = HandleResponse(procs[g].config, StatusOK,
                                                             BodyOf(procs[g].data)).result
                 /\ procs[g].cnf.SetOSEnv
                       => \A i \in 1..Len(procs[g].properties.items) : KeepsItsValue(g, i)

====
